---------------------------- MODULE Spec2Model ----------------------------
(***************************************************************************)
(* Outreach lifecycle engine of biodata-assistant: the OutreachRequest     *)
(* table and the operations that move a record through its lifecycle       *)
(* (API endpoints of app/api/v1/outreach.py, Celery tasks of               *)
(* app/core/tasks/outreach_tasks.py, the AgentMail webhook of              *)
(* app/api/v1/webhooks.py and inbox monitoring of                          *)
(* app/core/tasks/email_monitoring_tasks.py), and the lead pipeline that   *)
(* feeds it: scoring (app/utils/scoring.py), prospecting and its Task      *)
(* rows (app/core/agents/github_leads_agent.py,                            *)
(* app/core/tasks/github_prospecting_tasks.py, app/api/v1/leads.py,        *)
(* app/api/v1/tasks.py) and the audit log (app/core/utils/provenance.py).  *)
(*                                                                         *)
(* Status values are the strings the code stores in the status column.     *)
(* outreach_tasks.py writes OutreachStatus.SENDING.value and               *)
(* OutreachStatus.FAILED.value; the model writes "sending" and "failed"    *)
(* for them (the lower-case member name, as for every declared member).    *)
(***************************************************************************)
EXTENDS Integers, Sequences, FiniteSets, TLC

(* ------------------------------ bounds -------------------------------- *)
MaxOutreach == 2      \* rows of outreach_requests that may be created
NumEmails == 2        \* distinct contact e-mail addresses
MaxTick == 1          \* number of clock advances
MaxPending == 1       \* queued send_single_outreach messages per record
NumWorkers == 2       \* concurrent process_outreach_queue runs
MaxJobs == 2          \* messages of the prospecting tasks waiting in the queue
MaxTasks == 3         \* task ids handed out
InboundRows == 1      \* rows created where webhook events and inbox messages arrive
MaxIssues == 3        \* issues in a list given to filter_high_scoring_leads
NumUrls == 2          \* distinct issue URLs
MaxBatch == 2         \* issues a prospecting run fetches
MaxLeads == 3         \* rows of leads
MaxCalls == 2         \* calls of the mailer for a record by workers that are lost

(* -------------------------- program constants ------------------------- *)
DrainBatchSize == 10
BulkSendLimit == 50
DedupWindowDays == 7
CleanupAgeDays == 90
ProspectingMaxRetries == 3
ReposMaxRetries == 2
SingleMaxRetries == 2
SingleRetryBase == 60
AutomatedMaxRetries == 3
AutomatedRetryBase == 300
ReplyMaxRetries == 3
ReplyRetryBase == 30

Null == -1
EmptyString == 0       \* the e-mail ""
Ids == 1..MaxOutreach
Emails == 1..NumEmails
Workers == 1..NumWorkers
Urls == 1..NumUrls
Datasets == {1}

\* The instant (in days) the clock shows after k advances.  Two operations
\* either happen at the same instant (inside the 7-day and 90-day windows) or
\* DaysPerTick days apart (outside both).
DaysPerTick == 100
Day(k) == DaysPerTick * k
Instants == {Day(k) : k \in 0..MaxTick}

MsgIds == Ids         \* message ids the mailer hands out: one per record
ThreadIds == {}        \* thread ids of the provider: the SDK client returns none

DRAFT == "draft"
QUEUED == "queued"
SENDING == "sending"
SENT == "sent"
FAILED == "failed"
DELIVERED == "delivered"
REPLIED == "replied"
CLOSED == "closed"

\* TaskStatus values (PENDING, COMPLETED; FAILED is "failed" as above).
PENDING == "pending"
RUNNING == "running"
COMPLETED == "completed"

\* The members app/models/enums.py declares for OutreachStatus.
OutreachStatus == {DRAFT, QUEUED, SENT, DELIVERED, REPLIED, CLOSED}

\* LeadStage values used by the tasks.
LeadNEW == "new"
LeadENRICHED == "enriched"
LeadCONTACTED == "contacted"
LeadREPLIED == "replied"

VARIABLES
    recs,        \* outreach_requests: sequence of rows, the id is the index
    leads,       \* leads: sequence of rows, the id is the index
    now,         \* number of clock advances so far; the clock shows Day(now)
    cfg,         \* settings: webhook secret, automated outreach flag, mailer key
    drain,       \* per worker: the running process_outreach_queue invocation
    pendingSingle, \* per record: send_single_outreach messages waiting in the queue
    singleRun,   \* per record: the running send_single_outreach invocation
    mails,       \* per record, since it last became QUEUED: the calls of the
                 \* mailer and how many of them sent the e-mail
    prospecting, \* the prospecting tasks: the messages waiting in the queue, the
                 \* invocation each worker executes and the ids handed out
    requests,    \* per retrying task: the retries of its request and the
                 \* countdowns of the retries scheduled for it
    tasks,       \* tasks: the row of every task id that has one
    audit,       \* the audit store: how the commits of a provenance record answer
    automated,   \* per worker: the Lead a running send_automated_outreach has loaded
    searches,    \* per Task id: the step of the _run_agentic_search started for it
    obs          \* the request handled by the last step and its answer, where a
                 \* specification observes it

vars == <<recs, leads, now, cfg, drain, pendingSingle, singleRun, mails, prospecting, requests, tasks, audit, automated, searches, obs>>

(* ------------------------------- rows --------------------------------- *)
\* models/database.py OutreachRequest: column defaults of a new row.
NewOutreach(email, dataset, approval, t) ==
    [ status |-> DRAFT,
      contact_email |-> email,
      dataset_id |-> dataset,
      approval_required |-> approval,
      approved_at |-> Null,
      approved_by |-> Null,
      message_id |-> Null,
      thread_id |-> Null,
      sent_at |-> Null,
      replied_at |-> Null,
      created_at |-> t ]

Exists(i) == i \in 1..Len(recs)

\* approval_required and not approved_at
Gated(r) == r.approval_required /\ r.approved_at = Null

\* models/database.py Lead: a new row.  novice_score is a double (see the
\* scoring section).
NewLead(url, email, score, t) ==
    [ issue_url |-> url,
      email |-> email,
      stage |-> LeadENRICHED,
      novice_score |-> score,
      created_at |-> t ]

\* session.query(Lead).filter_by(email=email): the ids of the rows.
LeadsOf(email) == {k \in 1..Len(leads) : leads[k].email = email}

NoMails == [calls |-> 0, sent |-> 0]

\* The counters of a record after a call of the mailer answering r.
Mailed(m, r) == [calls |-> m.calls + 1, sent |-> m.sent + (IF r.success THEN 1 ELSE 0)]

IdleDrain == [pc |-> "idle", batch |-> <<>>, dirty |-> <<>>, fresh |-> TRUE, snap |-> <<>>]

(* ------------------------ app/api/v1/outreach.py ----------------------- *)
\* POST "" : create_outreach_request
create_outreach_request(email, dataset, approval) ==
    /\ Len(recs) < MaxOutreach
    /\ recs' = Append(recs, NewOutreach(email, dataset, approval, Day(now)))
    /\ UNCHANGED <<leads, now, cfg, prospecting, drain, pendingSingle, singleRun, mails, requests, tasks, audit, automated, searches>>

\* The HTTP status send_outreach_request answers with; dispatchOk tells
\* whether send_single_outreach.delay raises.
SendResponse(i, dispatchOk) ==
    IF ~Exists(i) THEN 404
    ELSE IF recs[i].status \notin {DRAFT, FAILED} THEN 400
    ELSE IF dispatchOk THEN 200 ELSE 500

\* POST /{outreach_id}/send : send_outreach_request
send_outreach_request(i, dispatchOk) ==
    LET code == SendResponse(i, dispatchOk) IN
    /\ IF code = 200
          THEN /\ pendingSingle[i] < MaxPending
               /\ recs' = [recs EXCEPT ![i].status = QUEUED]
               /\ pendingSingle' = [pendingSingle EXCEPT ![i] = @ + 1]
               /\ mails' = [mails EXCEPT ![i] = NoMails]
          ELSE IF code = 500
          THEN \* status set to QUEUED and committed, then reverted to DRAFT
               /\ recs' = [recs EXCEPT ![i].status = DRAFT]
               /\ UNCHANGED <<pendingSingle, mails>>
          ELSE UNCHANGED <<recs, pendingSingle, mails>>
    /\ UNCHANGED <<leads, now, cfg, prospecting, drain, singleRun, requests, tasks, audit, automated, searches>>

ApproveResponse(i) ==
    IF ~Exists(i) THEN 404
    ELSE IF ~recs[i].approval_required THEN 400
    ELSE IF recs[i].approved_at # Null THEN 400
    ELSE 200

\* approve_outreach_request moving every approved record to QUEUED.
approve_outreach_request_always_queues(i, approver) ==
    LET code == ApproveResponse(i) IN
    /\ IF code = 200
          THEN /\ recs' = [recs EXCEPT ![i] =
                     [@ EXCEPT !.approved_at = Day(now),
                               !.approved_by = approver,
                               !.status = QUEUED]]
               /\ mails' = [mails EXCEPT ![i] =
                     IF recs[i].status = DRAFT THEN NoMails ELSE @]
          ELSE UNCHANGED <<recs, mails>>
    /\ UNCHANGED <<leads, now, cfg, prospecting, drain, pendingSingle, singleRun, requests, tasks, audit, automated, searches>>

\* POST /{outreach_id}/approve : approve_outreach_request
approve_outreach_request(i, approver) ==
    LET code == ApproveResponse(i) IN
    /\ IF code = 200
          THEN /\ recs' = [recs EXCEPT ![i] =
                     [@ EXCEPT !.approved_at = Day(now),
                               !.approved_by = approver,
                               !.status = IF @ = DRAFT THEN QUEUED ELSE @]]
               /\ mails' = [mails EXCEPT ![i] =
                     IF recs[i].status = DRAFT THEN NoMails ELSE @]
          ELSE UNCHANGED <<recs, mails>>
    /\ UNCHANGED <<leads, now, cfg, prospecting, drain, pendingSingle, singleRun, requests, tasks, audit, automated, searches>>

\* The rows db.query(...).filter(id.in_(outreach_ids)).all() returns.
BulkRows(ids) == {i \in Ids : Exists(i) /\ \E k \in 1..Len(ids) : ids[k] = i}

\* send_bulk_outreach without the loop over the approval flags.
BulkResponseNoApproval(ids) ==
    IF Len(ids) > BulkSendLimit THEN 400
    ELSE IF Cardinality(BulkRows(ids)) # Len(ids) THEN 400
    ELSE IF \E i \in BulkRows(ids) : recs[i].status \notin {DRAFT, FAILED} THEN 400
    ELSE 200

BulkResponse(ids) ==
    IF Len(ids) > BulkSendLimit THEN 400
    ELSE IF Cardinality(BulkRows(ids)) # Len(ids) THEN 400
    ELSE IF \E i \in BulkRows(ids) : recs[i].status \notin {DRAFT, FAILED} THEN 400
    ELSE IF \E i \in BulkRows(ids) : Gated(recs[i]) THEN 400
    ELSE 200

\* POST /bulk-send : send_bulk_outreach.  For the ids in failing,
\* send_single_outreach.delay raises (caught and reported in "errors").
send_bulk_outreach(ids, failing) ==
    LET code == BulkResponse(ids)
        rows == BulkRows(ids) IN
    /\ IF code = 200
          THEN /\ \A i \in rows \ failing : pendingSingle[i] < MaxPending
               /\ recs' = [i \in 1..Len(recs) |->
                     IF i \in rows THEN [recs[i] EXCEPT !.status = QUEUED] ELSE recs[i]]
               /\ pendingSingle' = [i \in Ids |->
                     IF i \in rows \ failing THEN pendingSingle[i] + 1 ELSE pendingSingle[i]]
               /\ mails' = [i \in Ids |-> IF i \in rows THEN NoMails ELSE mails[i]]
          ELSE UNCHANGED <<recs, pendingSingle, mails>>
    /\ UNCHANGED <<leads, now, cfg, prospecting, drain, singleRun, requests, tasks, audit, automated, searches>>

(* -------------------- app/core/utils/provenance.py --------------------- *)
\* The audit store as log_provenance meets it: the answer of the commit of
\* the record ("ok", an OperationalError such as a missing table, or
\* another exception), whether init_db returns, and whether the commit of
\* the retry goes through.
AuditStore(commit, init, retry) == [commit |-> commit, init_db |-> init, retry |-> retry]
HealthyStore == AuditStore("ok", TRUE, TRUE)
AuditStores ==
    {HealthyStore,
     AuditStore("OperationalError", TRUE, TRUE),
     AuditStore("OperationalError", TRUE, FALSE),
     AuditStore("OperationalError", FALSE, FALSE),
     AuditStore("Exception", FALSE, FALSE)}

\* A final fallback that raises the exception again.
FinalFallbackRaises(store) == "raised"

\* log_provenance, lines 72-77: the final fallback logs and swallows.
FinalFallback(store) == "returned"

\* log_provenance, lines 39-83: whether the call returns or raises.
log_provenance(store) ==
    IF store.commit = "ok" THEN "returned"
    ELSE IF store.commit = "OperationalError" /\ store.init_db /\ store.retry THEN "returned"
    ELSE FinalFallback(store)

(* --------------------------- the mailer -------------------------------- *)
\* integrations/agentmail_client.py send_email with the SDK client (lines
\* 97-155): success with the message_id of the provider and thread_id None,
\* or a failure.  The provider's id for the message of record i is i.
\* An ApiError carries the HTTP status of the provider (lines 132-148), any
\* other exception none (lines 149-155).
MailFail == [success |-> FALSE, message_id |-> Null, thread_id |-> Null, status_code |-> Null]
MailError(code) == [MailFail EXCEPT !.status_code = code]
MailOk(m, t) == [success |-> TRUE, message_id |-> m, thread_id |-> t, status_code |-> Null]
ApiErrorCodes == {400, 429, 503}
MailerResults(i) == {MailFail, MailOk(i, Null)} \cup {MailError(c) : c \in ApiErrorCodes}

(* -------------------- app/core/tasks/outreach_tasks.py ------------------ *)
\* _send_outreach_email, from the lookup of the Lead to the returned result:
\* with a Lead for the contact the mailer is called (_send_lead_outreach) and
\* answers res, without one the result is the "not yet implemented" failure.
\* The provenance call before the lookup (line 226) is inside the try: were
\* it to raise, the except branch (lines 291-305) would set FAILED and call
\* log_provenance again, which would raise out of the function.
SendResultWith(i, res, store) ==
    IF log_provenance(store) = "raised" THEN MailFail
    ELSE IF LeadsOf(recs[i].contact_email) # {} THEN res
    ELSE MailFail

SendResult(i, res) == SendResultWith(i, res, audit)

MailerCalledWith(i, store) ==
    log_provenance(store) = "returned" /\ LeadsOf(recs[i].contact_email) # {}

MailerCalled(i) == MailerCalledWith(i, audit)

\* The attribute writes _send_outreach_email makes for result r (lines 255-287):
\* a pending UPDATE of the session until its next commit.
OutcomeWrite(i, r) ==
    IF r.success
    THEN [id |-> i, status |-> SENT, sent_at |-> Day(now),
          message_id |-> r.message_id, thread_id |-> r.thread_id]
    ELSE [id |-> i, status |-> FAILED, sent_at |-> Null,
          message_id |-> Null, thread_id |-> Null]

\* The row after the UPDATE of write w (only the changed columns are written).
ApplyWrite(row, w) ==
    IF w.status = SENT
    THEN [row EXCEPT !.status = SENT, !.sent_at = w.sent_at,
                     !.message_id = w.message_id, !.thread_id = w.thread_id]
    ELSE [row EXCEPT !.status = w.status]

\* session.commit(): the table after the pending writes of a session.
Commit(table, dirty) ==
    [i \in 1..Len(table) |->
        IF \E k \in 1..Len(dirty) : dirty[k].id = i
        THEN ApplyWrite(table[i], dirty[CHOOSE k \in 1..Len(dirty) : dirty[k].id = i])
        ELSE table[i]]

QueuedIds == {i \in 1..Len(recs) : recs[i].status = QUEUED}

Min(a, b) == IF a < b THEN a ELSE b

\* The sequences of at most n rows of S with the newest first.
RECURSIVE NewestFirst(_, _)
NewestFirst(S, n) ==
    IF n = 0 \/ S = {} THEN {<<>>}
    ELSE UNION {{<<i>> \o q : q \in NewestFirst(S \ {i}, n - 1)} :
                   i \in {j \in S : \A k \in S : recs[j].created_at >= recs[k].created_at}}

\* order_by(created_at.asc()).limit(n) over the rows S: the sequences of at
\* most n rows of S with the oldest first; rows with equal created_at come
\* in either order.
RECURSIVE OldestFirst(_, _)
OldestFirst(S, n) ==
    IF n = 0 \/ S = {} THEN {<<>>}
    ELSE UNION {{<<i>> \o q : q \in OldestFirst(S \ {i}, n - 1)} :
                   i \in {j \in S : \A k \in S : recs[j].created_at <= recs[k].created_at}}

\* The query of process_outreach_queue ordering by created_at descending.
QueuedBatchesNewestFirst == NewestFirst(QueuedIds, DrainBatchSize)

\* The results of the query of process_outreach_queue (lines 32-34): the
\* QUEUED rows in ascending created_at, at most DrainBatchSize of them.
QueuedBatches == OldestFirst(QueuedIds, DrainBatchSize)

\* process_outreach_queue, lines 29-38: the query; nothing queued ends the run.
DrainStart(w) ==
    /\ drain[w].pc = "idle"
    /\ \E q \in QueuedBatches :
          drain' = [drain EXCEPT ![w] =
              IF q = <<>> THEN IdleDrain
              ELSE [pc |-> "loop", batch |-> q, dirty |-> <<>>, fresh |-> TRUE,
                    snap |-> [k \in 1..Len(q) |-> Gated(recs[q[k]])]]]
    /\ UNCHANGED <<recs, leads, now, cfg, prospecting, pendingSingle, singleRun, mails, requests, tasks, audit, automated, searches>>

\* process_outreach_queue, lines 44-49 and _send_outreach_email, lines 221-223:
\* the next row of the batch is skipped when gated by approval, otherwise its
\* status is set to SENDING and the session committed.  Until the first
\* commit of the run the rows carry the attributes the query loaded (snap);
\* a commit expires them and the next access reloads the row.
DrainClaim(w) ==
    /\ drain[w].pc = "loop"
    /\ drain[w].batch # <<>>
    /\ LET i == Head(drain[w].batch)
           gated == IF drain[w].fresh THEN Head(drain[w].snap) ELSE Gated(recs[i]) IN
       IF gated
       THEN /\ drain' = [drain EXCEPT ![w].batch = Tail(@),
                                      ![w].snap = IF @ = <<>> THEN @ ELSE Tail(@)]
            /\ UNCHANGED <<recs, mails>>
       ELSE /\ recs' = [Commit(recs, drain[w].dirty) EXCEPT ![i].status = SENDING]
            /\ drain' = [drain EXCEPT ![w].pc = "sending", ![w].dirty = <<>>,
                                      ![w].fresh = FALSE, ![w].snap = <<>>]
            /\ UNCHANGED mails
    /\ UNCHANGED <<leads, now, cfg, prospecting, pendingSingle, singleRun, requests, tasks, audit, automated, searches>>

\* _send_outreach_email, lines 237-289, called from the loop of
\* process_outreach_queue: the send and the (uncommitted) outcome.
DrainSend(w) ==
    /\ drain[w].pc = "sending"
    /\ LET i == Head(drain[w].batch) IN
       \E res \in MailerResults(i) :
          /\ drain' = [drain EXCEPT ![w] =
                [pc |-> "loop", batch |-> Tail(drain[w].batch),
                 dirty |-> <<OutcomeWrite(i, SendResult(i, res))>>,
                 fresh |-> FALSE, snap |-> <<>>]]
          /\ mails' = [mails EXCEPT ![i] = IF MailerCalled(i) THEN Mailed(@, res) ELSE @]
    /\ UNCHANGED <<recs, leads, now, cfg, prospecting, pendingSingle, singleRun, requests, tasks, audit, automated, searches>>

\* process_outreach_queue, line 68: the commit after the loop.
DrainFinish(w) ==
    /\ drain[w].pc = "loop"
    /\ drain[w].batch = <<>>
    /\ recs' = Commit(recs, drain[w].dirty)
    /\ drain' = [drain EXCEPT ![w] = IdleDrain]
    /\ UNCHANGED <<leads, now, cfg, prospecting, pendingSingle, singleRun, mails, requests, tasks, audit, automated, searches>>

\* send_single_outreach, lines 183-186 and _send_outreach_email, lines 221-223:
\* a worker takes the message, loads the row and commits status SENDING.
SingleStart(i) ==
    /\ pendingSingle[i] > 0
    /\ singleRun[i] = "idle"
    /\ pendingSingle' = [pendingSingle EXCEPT ![i] = @ - 1]
    /\ singleRun' = [singleRun EXCEPT ![i] = "sending"]
    /\ recs' = [recs EXCEPT ![i].status = SENDING]
    /\ UNCHANGED <<leads, now, cfg, prospecting, drain, mails, requests, tasks, audit, automated, searches>>

\* _send_outreach_email, lines 237-289 and send_single_outreach, line 189:
\* the send, the outcome and the commit.
\* An exception out of _send_outreach_email (lines 194-202) rolls the
\* session back and schedules a retry.
SingleOutcome(i, res, store) ==
    IF log_provenance(store) = "raised" THEN recs
    ELSE Commit(recs, <<OutcomeWrite(i, SendResultWith(i, res, store))>>)

SingleRetries(i, store) ==
    IF log_provenance(store) = "raised"
    THEN [pendingSingle EXCEPT ![i] = @ + 1]
    ELSE pendingSingle

SingleSendWith(i, res) ==
    /\ singleRun[i] = "sending"
    /\ \A k \in Ids : SingleRetries(i, audit)[k] <= MaxPending
    /\ recs' = SingleOutcome(i, res, audit)
    /\ pendingSingle' = SingleRetries(i, audit)
    /\ mails' = [mails EXCEPT ![i] = IF MailerCalled(i) THEN Mailed(@, res) ELSE @]
    /\ singleRun' = [singleRun EXCEPT ![i] = "idle"]
    /\ UNCHANGED <<leads, now, cfg, prospecting, drain, requests, tasks, audit, automated, searches>>

SingleSend(i) == \E res \in MailerResults(i) : SingleSendWith(i, res)

\* celery_app.py, line 45 (task_acks_late) and send_single_outreach, lines
\* 188-189: the worker is lost after status SENDING was committed and before
\* the commit of the outcome, either before the mailer was reached or after
\* it answered res.  The writes of the session are lost with the worker and
\* the broker delivers the unacknowledged message again.
SingleCrash(i, reached, res) ==
    /\ singleRun[i] = "sending"
    /\ pendingSingle[i] < MaxPending
    /\ reached => mails[i].calls < MaxCalls
    /\ singleRun' = [singleRun EXCEPT ![i] = "idle"]
    /\ pendingSingle' = [pendingSingle EXCEPT ![i] = @ + 1]
    /\ mails' = [mails EXCEPT ![i] =
          IF reached /\ MailerCalled(i) THEN Mailed(@, res) ELSE @]
    /\ UNCHANGED <<recs, leads, now, cfg, prospecting, drain, requests, tasks, audit, automated, searches>>

\* celery_app.py, line 45 and process_outreach_queue, lines 44-68: the worker
\* is lost inside a run; the uncommitted outcome is lost with it and the
\* broker delivers the message again (a new run, starting with the query).
DrainCrash(w) ==
    /\ drain[w].pc # "idle"
    /\ drain' = [drain EXCEPT ![w] = IdleDrain]
    /\ UNCHANGED <<recs, leads, now, cfg, prospecting, pendingSingle, singleRun, mails, requests, tasks, audit, automated, searches>>

\* send_automated_outreach, lines 109-114: an OutreachRequest to the e-mail
\* created within the trailing DedupWindowDays.
RecentOutreach(email) ==
    \E i \in 1..Len(recs) :
        /\ recs[i].contact_email = email
        /\ recs[i].created_at >= Day(now) - DedupWindowDays

\* send_automated_outreach(lead_id) running alone: a missing Lead, a Lead
\* without e-mail and a recent OutreachRequest end the task; otherwise the row
\* is created DRAFT, the invite is sent by _send_lead_outreach, the Lead
\* becomes CONTACTED on success, and the session is committed.
send_automated_outreach(k) ==
    /\ IF \/ k \notin 1..Len(leads)
          \/ leads[k].email \in {Null, EmptyString}
          \/ RecentOutreach(leads[k].email)
       THEN UNCHANGED <<recs, leads, mails>>
       ELSE /\ Len(recs) < MaxOutreach
            /\ recs' = Append(recs, NewOutreach(leads[k].email, Null, ~cfg.automated, Day(now)))
            /\ \E res \in MailerResults(Len(recs) + 1) :
                  /\ mails' = [mails EXCEPT ![Len(recs) + 1] = Mailed(NoMails, res)]
                  /\ leads' = IF res.success
                              THEN [leads EXCEPT ![k].stage = LeadCONTACTED]
                              ELSE leads
    /\ UNCHANGED <<now, cfg, prospecting, drain, pendingSingle, singleRun, requests, tasks, audit, automated, searches>>

\* send_automated_outreach beside another one.  NoRun: the worker runs none.
NoRun == [lead |-> Null, email |-> Null]

\* Lines 97-118: the Lead is loaded and the recent OutreachRequest looked up;
\* a missing Lead, one without e-mail and a recent row end the task.
AutomatedCheck(w, k) ==
    /\ automated[w] = NoRun
    /\ automated' = [automated EXCEPT ![w] =
          IF \/ k \notin 1..Len(leads)
             \/ leads[k].email \in {Null, EmptyString}
             \/ RecentOutreach(leads[k].email)
          THEN NoRun
          ELSE [lead |-> k, email |-> leads[k].email]]
    /\ UNCHANGED <<recs, leads, now, cfg, prospecting, drain, pendingSingle, singleRun, mails,
                   requests, tasks, audit, searches>>

\* Lines 120-153: the row is added (flushed, visible to other sessions from
\* the commit on), the invite is sent, the Lead becomes CONTACTED on success
\* and the session is committed.
AutomatedSend(w) ==
    /\ automated[w] # NoRun
    /\ Len(recs) < MaxOutreach
    /\ recs' = Append(recs, NewOutreach(automated[w].email, Null, ~cfg.automated, Day(now)))
    /\ \E res \in MailerResults(Len(recs) + 1) :
          /\ mails' = [mails EXCEPT ![Len(recs) + 1] = Mailed(NoMails, res)]
          /\ leads' = IF res.success
                      THEN [leads EXCEPT ![automated[w].lead].stage = LeadCONTACTED]
                      ELSE leads
    /\ automated' = [automated EXCEPT ![w] = NoRun]
    /\ UNCHANGED <<now, cfg, prospecting, drain, pendingSingle, singleRun, requests, tasks,
                   audit, searches>>

\* update_lead_stage: PUT /leads/{lead_id}/stage sets the stage of the lead;
\* an unknown lead_id is answered 404.
update_lead_stage(k, stage) ==
    /\ k \in 1..Len(leads)
    /\ leads' = [leads EXCEPT ![k].stage = stage]
    /\ UNCHANGED <<recs, now, cfg, prospecting, drain, pendingSingle, singleRun, mails, requests, tasks, audit, automated, searches>>

\* cleanup_old_outreach_records: FAILED rows older than CleanupAgeDays become CLOSED.
cleanup_old_outreach_records ==
    /\ recs' = [i \in 1..Len(recs) |->
          IF recs[i].status = FAILED /\ recs[i].created_at < Day(now) - CleanupAgeDays
          THEN [recs[i] EXCEPT !.status = CLOSED] ELSE recs[i]]
    /\ UNCHANGED <<leads, now, cfg, prospecting, drain, pendingSingle, singleRun, mails, requests, tasks, audit, automated, searches>>

\* The passing of time between two operations.
Tick ==
    /\ now < MaxTick
    /\ now' = now + 1
    /\ UNCHANGED <<recs, leads, cfg, prospecting, drain, pendingSingle, singleRun, mails, requests, tasks, audit, automated, searches>>

(* ------------------------ app/api/v1/webhooks.py ----------------------- *)
Unparseable == -2     \* a received_at that datetime.fromisoformat rejects
NumDigests == 2       \* size of the digest space of the model's MAC
InvalidJson == "invalid-json"

\* The event types the endpoint distinguishes, and one it does not handle.
EventTypes == {"message.received", "message.delivered", "message.bounced",
               "email.replied", "email.delivered", "email.failed",
               "email.bounced", "email.sent", "other"}

\* handle_agentmail_webhook, lines 48-57: legacy names to the new-style names.
Normalize(t) ==
    IF t = "email.replied" THEN "message.received"
    ELSE IF t = "email.delivered" THEN "message.delivered"
    ELSE IF t \in {"email.failed", "email.bounced"} THEN "message.bounced"
    ELSE IF t = "email.sent" THEN "message.delivered"
    ELSE t

Event(t, m, th, d, at, att) ==
    [etype |-> t, message_id |-> m, thread_id |-> th, dataset_id |-> d,
     received_at |-> at, attachments |-> att]

\* Request bodies: reply events, delivery events, bounce events, an event of
\* an unhandled type, and a body that is not JSON.
ReplyEvents ==
    {Event("message.received", m, th, d, at, att) :
        m \in MsgIds \cup {Null}, th \in ThreadIds \cup {Null},
        d \in Datasets \cup {Null},
        at \in Instants \cup {Null, Unparseable}, att \in BOOLEAN}
    \cup {Event("email.replied", m, Null, Null, Null, FALSE) : m \in MsgIds \cup {Null}}
DeliveryEvents ==
    {Event(t, m, th, Null, Null, FALSE) :
        t \in {"message.delivered", "email.delivered", "email.sent"},
        m \in MsgIds \cup {Null}, th \in ThreadIds \cup {Null}}
BounceEvents ==
    {Event(t, m, Null, Null, Null, FALSE) :
        t \in {"message.bounced", "email.failed", "email.bounced"},
        m \in MsgIds \cup {Null}}
OtherEvents == {Event(t, Null, Null, Null, Null, FALSE) : t \in {"other", InvalidJson}}
Bodies == ReplyEvents \cup DeliveryEvents \cup BounceEvents \cup OtherEvents

\* A number standing for the bytes of a body.
BodyBytes(ev) ==
    LET names == <<"message.received", "message.delivered", "message.bounced",
                   "email.replied", "email.delivered", "email.failed",
                   "email.bounced", "email.sent", "other", InvalidJson>>
        t == CHOOSE k \in 1..Len(names) : names[k] = ev.etype
    IN  t + 13 * (ev.message_id + 2) + 5 * (ev.thread_id + 2) + 7 * (ev.dataset_id + 2)
          + 3 * (ev.received_at + 2) + (IF ev.attachments THEN 1 ELSE 0)

\* hmac.new(secret, body, sha256).hexdigest(), as a keyed digest over a small space.
Hmac(secret, ev) == (BodyBytes(ev) * (2 * secret + 1) + secret) % NumDigests

\* verify_webhook_signature letting a request without the header pass.
verify_webhook_signature_missing_ok(ev, signature, secret) ==
    IF signature = Null THEN TRUE
    ELSE Hmac(secret, ev) = signature

\* verify_webhook_signature: a missing signature fails, otherwise the
\* expected digest is compared with the header.
verify_webhook_signature(ev, signature, secret) ==
    IF signature = Null THEN FALSE
    ELSE Hmac(secret, ev) = signature

\* handle_message_received, lines 88-94: thread_id, then message_id, then dataset_id.
ReceivedMatches(ev) ==
    LET byThread == IF ev.thread_id # Null
                    THEN {i \in 1..Len(recs) : recs[i].thread_id = ev.thread_id} ELSE {}
        byMessage == IF ev.message_id # Null
                     THEN {i \in 1..Len(recs) : recs[i].message_id = ev.message_id} ELSE {}
        byDataset == IF ev.dataset_id # Null
                     THEN {i \in 1..Len(recs) : recs[i].dataset_id = ev.dataset_id} ELSE {}
    IN  IF byThread # {} THEN byThread
        ELSE IF byMessage # {} THEN byMessage
        ELSE byDataset

\* handle_message_received, lines 101-105: the timestamp stored in replied_at.
ReplyTime(ev) ==
    IF ev.received_at \in {Null, Unparseable} THEN Day(now) ELSE ev.received_at

\* handle_message_received: the table after the handler, for the matched row i.
handle_message_received(ev, i) ==
    [recs EXCEPT ![i] =
        [@ EXCEPT !.status = REPLIED,
                  !.replied_at = ReplyTime(ev),
                  !.approval_required = IF ev.attachments THEN TRUE ELSE @]]

\* handle_message_delivered, lines 127-134: message_id, then thread_id.
DeliveredMatches(ev) ==
    LET byMessage == IF ev.message_id # Null
                     THEN {i \in 1..Len(recs) : recs[i].message_id = ev.message_id} ELSE {}
        byThread == IF ev.thread_id # Null
                    THEN {i \in 1..Len(recs) : recs[i].thread_id = ev.thread_id} ELSE {}
    IN  IF byMessage # {} THEN byMessage ELSE byThread

handle_message_delivered(ev, i) == [recs EXCEPT ![i].status = DELIVERED]

\* handle_message_bounced, lines 146-151: message_id only.
BouncedMatches(ev) ==
    IF ev.message_id # Null
    THEN {i \in 1..Len(recs) : recs[i].message_id = ev.message_id} ELSE {}

handle_message_bounced(ev, i) == [recs EXCEPT ![i].status = CLOSED]

\* The rows an event of a handled type may be attributed to.
Matches(ev) ==
    LET t == Normalize(ev.etype) IN
    IF t = "message.received" THEN ReceivedMatches(ev)
    ELSE IF t = "message.delivered" THEN DeliveredMatches(ev)
    ELSE IF t = "message.bounced" THEN BouncedMatches(ev)
    ELSE {}

Handle(ev, i) ==
    LET t == Normalize(ev.etype) IN
    IF t = "message.received" THEN handle_message_received(ev, i)
    ELSE IF t = "message.delivered" THEN handle_message_delivered(ev, i)
    ELSE handle_message_bounced(ev, i)

\* log_prov_sync, lines 177-193: the handlers run inside the event loop, so
\* the coroutine log_provenance is scheduled on the loop and not awaited
\* (what it raises stays in its task); any other exception is caught.
log_prov_sync(store) == "returned"

\* The provenance step of handle_message_received (lines 115-122) and
\* handle_message_bounced (lines 160-163), after the commit: an exception of
\* log_prov_sync is caught by the handler.
HandlerProvenance(ev, store) ==
    IF /\ Normalize(ev.etype) \in {"message.received", "message.bounced"}
       /\ Matches(ev) # {}
       /\ log_prov_sync(store) = "raised"
    THEN "returned"
    ELSE "returned"

\* The HTTP status of handle_agentmail_webhook for a body and a signature
\* header, with the audit store as it is.
WebhookResponseWith(ev, signature, store) ==
    IF cfg.secret # Null /\ ~verify_webhook_signature(ev, signature, cfg.secret) THEN 401
    ELSE IF ev.etype = InvalidJson THEN 400
    ELSE IF HandlerProvenance(ev, store) = "raised" THEN 500
    ELSE 200

WebhookResponse(ev, signature) == WebhookResponseWith(ev, signature, audit)

\* The "status" field of a 200 answer.
WebhookStatus(ev) ==
    IF Normalize(ev.etype) \in {"message.received", "message.delivered", "message.bounced"}
    THEN "ok" ELSE "ignored"

\* POST /agentmail/webhook : handle_agentmail_webhook
handle_agentmail_webhook(ev, signature) ==
    LET code == WebhookResponse(ev, signature) IN
    /\ IF code = 200 /\ Matches(ev) # {}
       THEN \E i \in Matches(ev) : recs' = Handle(ev, i)
       ELSE UNCHANGED recs
    /\ UNCHANGED <<leads, now, cfg, prospecting, drain, pendingSingle, singleRun, mails, requests, tasks, audit, automated, searches>>

(* ---------------- app/core/tasks/email_monitoring_tasks.py ------------- *)
\* An inbox message as list_messages returns it.
InboxMessage(m, from, at) == [id |-> m, from |-> from, received_at |-> at]
InboxMessages ==
    {InboxMessage(m, f, at) : m \in MsgIds \cup {Null}, f \in Emails \cup {Null},
                              at \in Instants \cup {Null, Unparseable}}

\* _process_single_email_reply, lines 205-211: the parsed received timestamp.
ReceivedAt(msg) ==
    IF msg.received_at \in {Null, Unparseable} THEN Day(now) ELSE msg.received_at

\* _process_single_email_reply, lines 213-227 (outreach_id is None): the row
\* with the message_id, else the first row of the sender by sent_at
\* descending: a row with the latest sent_at, or one with a NULL sent_at where
\* the database sorts NULL first.
ReplyMatches(msg) ==
    LET byMessage == IF msg.id # Null
                     THEN {i \in 1..Len(recs) : recs[i].message_id = msg.id} ELSE {}
        bySender == IF msg.from # Null
                    THEN {i \in 1..Len(recs) : recs[i].contact_email = msg.from} ELSE {}
    IN  IF byMessage # {} THEN byMessage
        ELSE {i \in bySender : \/ recs[i].sent_at = Null
                                \/ \A j \in bySender : recs[j].sent_at <= recs[i].sent_at}

\* _process_single_email_reply, lines 233-238: the reply was processed before.
AlreadyProcessed(row, msg) ==
    /\ row.status = REPLIED
    /\ row.replied_at # Null
    /\ row.replied_at >= ReceivedAt(msg)

\* monitor_inbound_emails -> _check_and_process_emails with one message in
\* the inbox: _process_single_email_reply and the commit.
monitor_inbound_emails(msg) ==
    /\ IF ReplyMatches(msg) = {}
       THEN UNCHANGED <<recs, leads>>
       ELSE \E i \in ReplyMatches(msg) :
              IF AlreadyProcessed(recs[i], msg)
              THEN UNCHANGED <<recs, leads>>
              ELSE /\ recs' = [recs EXCEPT ![i].status = REPLIED,
                                           ![i].replied_at = ReceivedAt(msg)]
                   /\ IF LeadsOf(recs[i].contact_email) = {}
                      THEN UNCHANGED leads
                      ELSE \E k \in LeadsOf(recs[i].contact_email) :
                             leads' = [leads EXCEPT ![k].stage =
                                 IF @ \in {LeadNEW, LeadENRICHED, LeadCONTACTED}
                                 THEN LeadREPLIED ELSE @]
    /\ UNCHANGED <<now, cfg, prospecting, drain, pendingSingle, singleRun, mails, requests, tasks, audit, automated, searches>>

(* ------------------------- app/utils/scoring.py ------------------------- *)
\* Python floats.  The double x is written [h, d, m]: with n the number of
\* units of 2^-57 in x, h is x in hundredths rounded to the nearest integer,
\* d = 100 * n - h * 2^57 the distance of x from h hundredths, and
\* m = n % 64 the low bits of n that rounding needs.
Double000 == [h |-> 0, d |-> 0, m |-> 0]           \* 0.0
Double005 == [h |-> 5, d |-> 40, m |-> 26]         \* 0.05
Double010 == [h |-> 10, d |-> 80, m |-> 52]        \* 0.1
Double020 == [h |-> 20, d |-> 160, m |-> 40]       \* 0.2
Double059 == [h |-> 59, d |-> -448, m |-> 16]      \* 0.59
Double060 == [h |-> 60, d |-> -320, m |-> 48]      \* 0.6
Double060Sum == [h |-> 60, d |-> 1280, m |-> 0]    \* 0.6000000000000001
Double090 == [h |-> 90, d |-> 320, m |-> 16]       \* 0.9
Double100 == [h |-> 100, d |-> 0, m |-> 0]         \* 1.0

\* The spacing of the doubles around the real h hundredths + d, in units of
\* 2^-57: 32 from 1.0, 16 from 0.5, 8 from 0.25, 4 from 0.125, 2 from 0.0625.
Ulp(h, d) ==
    IF h > 100 \/ (h = 100 /\ d >= 0) THEN 32
    ELSE IF h > 50 \/ (h = 50 /\ d >= 0) THEN 16
    ELSE IF h > 25 \/ (h = 25 /\ d >= 0) THEN 8
    ELSE IF 2 * h > 25 THEN 4
    ELSE IF 4 * h > 25 THEN 2
    ELSE 1

\* a + b of two doubles: the exact sum rounded to the nearest double, a tie
\* to the one with an even significand.
DoubleAdd(a, b) ==
    LET h == a.h + b.h
        d == a.d + b.d
        m == (a.m + b.m) % 64
        u == Ulp(h, d)
        r == m % u
        delta == IF 2 * r < u THEN 0 - r
                 ELSE IF 2 * r > u THEN u - r
                 ELSE IF ((m - r) \div u) % 2 = 0 THEN 0 - r
                 ELSE u - r
    IN  [h |-> h, d |-> d + 100 * delta, m |-> (m + delta) % 64]

\* a < b of two doubles.
DoubleLess(a, b) == a.h < b.h \/ (a.h = b.h /\ a.d < b.d)

\* The value of a double in hundredths, rounded to the nearest integer.
Hundredths(x) == x.h

\* None, False and True of a signal that is a flag; Null is the None of a number.
PyNone == "None"
PyFalse == "False"
PyTrue == "True"

\* calculate_novice_score, line 155.
novice_labels == {"question", "help wanted", "usage", "documentation", "beginner"}

\* isinstance(v, (int, float)) of a number or None.
IsNumber(v) == v # Null

\* calculate_novice_score counting an undetermined code_blocks_present as
\* the absence of code.
NoCodeBlocksOrUnknown(signals) == signals.code_blocks_present # PyTrue

\* calculate_novice_score, lines 149-150: has_code is False.
NoCodeBlocks(signals) == signals.code_blocks_present = PyFalse

\* calculate_novice_score, lines 126-169: the additions in the order of the
\* code, then the clamp max(0.0, min(1.0, score)).
calculate_novice_score(signals) ==
    LET s0 == Double000
        s1 == IF IsNumber(signals.account_age_days) /\ signals.account_age_days < 365
              THEN DoubleAdd(s0, Double020) ELSE s0
        s2 == IF IsNumber(signals.followers) /\ signals.followers < 5
              THEN DoubleAdd(s1, Double020) ELSE s1
        s3 == IF IsNumber(signals.public_repos) /\ signals.public_repos < 5
              THEN DoubleAdd(s2, Double010) ELSE s2
        s4 == IF Cardinality(signals.keywords) > 0
              THEN DoubleAdd(s3, Double020) ELSE s3
        s5 == IF NoCodeBlocks(signals)
              THEN DoubleAdd(s4, Double010) ELSE s4
        s6 == IF \E label \in signals.labels : label \in novice_labels
              THEN DoubleAdd(s5, Double010) ELSE s5
        s7 == IF IsNumber(signals.issue_body_length) /\ signals.issue_body_length < 400
              THEN DoubleAdd(s6, Double010) ELSE s6
        s8 == IF signals.punctuation_excess = PyTrue
              THEN DoubleAdd(s7, Double005) ELSE s7
        lower == IF DoubleLess(s8, Double100) THEN s8 ELSE Double100
    IN  IF DoubleLess(Double000, lower) THEN lower ELSE Double000

\* The signals dictionaries given to calculate_novice_score: every signal
\* unknown, below its limit or at it.
Signals(age, followers, repos, keywords, code, labels, length, punctuation) ==
    [account_age_days |-> age, followers |-> followers, public_repos |-> repos,
     keywords |-> keywords, code_blocks_present |-> code, labels |-> labels,
     issue_body_length |-> length, punctuation_excess |-> punctuation]

SignalInputs ==
    {Signals(a, f, r, k, c, l, b, p) :
        a \in {Null, 90, 365}, f \in {Null, 2, 5}, r \in {Null, 1, 5},
        k \in {{}, {"help"}}, c \in {PyNone, PyFalse, PyTrue},
        l \in {{}, {"question"}, {"bug"}},
        b \in {Null, 120, 400}, p \in {PyNone, PyFalse, PyTrue}}

\* filter_high_scoring_leads, line 268: score >= threshold and email, with
\* the default threshold 0.6; None and "" are no e-mail.
HasEmail(issue) == issue.email \notin {Null, EmptyString}

\* filter_high_scoring_leads selecting scores above the threshold only.
SelectedAboveThreshold(issue) ==
    DoubleLess(Double060, issue.novice_score) /\ HasEmail(issue)

Selected(issue) ==
    ~DoubleLess(issue.novice_score, Double060) /\ HasEmail(issue)

\* list.sort(key=novice_score, reverse=True): x placed in a list sorted by
\* score descending, behind the elements that are not smaller (the sort is stable).
InsertByScore(x, s) ==
    LET p == Cardinality({j \in 1..Len(s) :
                 ~DoubleLess(s[j].novice_score, x.novice_score)})
    IN  SubSeq(s, 1, p) \o <<x>> \o SubSeq(s, p + 1, Len(s))

RECURSIVE SortByScore(_)
SortByScore(s) ==
    IF s = <<>> THEN <<>>
    ELSE InsertByScore(s[Len(s)], SortByScore(SubSeq(s, 1, Len(s) - 1)))

\* filter_high_scoring_leads, lines 261-274.
filter_high_scoring_leads(issues) == SortByScore(SelectSeq(issues, Selected))

(* ---------------- app/core/agents/github_leads_agent.py ------------------ *)
\* An issue of fetch_issue_list with the answer of _qualify_lead_with_ai for
\* it.  should_contact is False where the qualification raises on both
\* attempts (the agent call fails, or SimpleNamespace rejects the positional
\* argument of line 206 as the interpreters before 3.13 do) and True otherwise.
ScrapedIssue(url, email, contact) ==
    [issue_url |-> url, email |-> email, should_contact |-> contact, confidence |-> Null]

\* prospect_github_issues, lines 81-93: the issues to contact, with an e-mail
\* (require_email).  Lines 82-84 add the reason and the priority to the
\* issue; the confidence of the qualification is not added.
Qualified(issue) == issue.should_contact /\ issue.email \notin {Null, EmptyString}

\* _persist_leads_to_db, line 291: lead_data.get("confidence", 0.0).
StoredScore(lead_data) ==
    IF lead_data.confidence = Null THEN Double000 ELSE lead_data.confidence

\* A leads table without the unique index on issue_url.
NoUniqueIssueUrl(rows) == TRUE

\* models/database.py, line 99: issue_url is unique.
UniqueIssueUrl(rows) ==
    \A a, b \in 1..Len(rows) : a < b => rows[a].issue_url # rows[b].issue_url

\* _persist_leads_to_db, lines 268-311: the rows of the session after the
\* loop over the batch.  The query for the existing Lead sees the rows of the
\* table and, where the session flushes before a query (autoflush), the rows
\* the loop added; an existing row gets every field of the new data but id
\* and created_at, otherwise a row is added.
RECURSIVE SessionAfter(_, _, _)
SessionAfter(rows, batch, autoflush) ==
    IF batch = <<>> THEN rows
    ELSE LET lead_data == Head(batch)
             existing == {k \in 1..Len(rows) :
                             /\ rows[k].issue_url = lead_data.issue_url
                             /\ (autoflush \/ k <= Len(leads))}
             updated ==
                 IF existing # {}
                 THEN LET k == CHOOSE k \in existing : TRUE IN
                      [rows EXCEPT ![k] = [@ EXCEPT !.email = lead_data.email,
                                                    !.stage = LeadENRICHED,
                                                    !.novice_score = StoredScore(lead_data)]]
                 ELSE Append(rows, NewLead(lead_data.issue_url, lead_data.email,
                                           StoredScore(lead_data), Day(now)))
         IN  SessionAfter(updated, Tail(batch), autoflush)

\* _persist_leads_to_db, lines 313-319: the table after the commit; a commit
\* that violates the unique index is rolled back.
PersistedLeads(batch, autoflush) ==
    LET rows == SessionAfter(leads, batch, autoflush) IN
    IF UniqueIssueUrl(rows) THEN rows ELSE leads

persist_leads_to_db(batch, autoflush) ==
    /\ leads' = PersistedLeads(batch, autoflush)
    /\ UNCHANGED <<recs, now, cfg, prospecting, drain, pendingSingle, singleRun, mails, requests, tasks, audit, automated, searches>>

\* prospect_github_issues, lines 67-121: the leads it returns, and the table
\* after it has persisted them (line 106: only a batch that is not empty).
QualifiedLeads(issues) == SelectSeq(issues, Qualified)

ProspectedLeads(issues, autoflush) ==
    IF QualifiedLeads(issues) # <<>>
    THEN PersistedLeads(QualifiedLeads(issues), autoflush)
    ELSE leads

prospect_github_issues(issues, autoflush) ==
    /\ leads' = ProspectedLeads(issues, autoflush)
    /\ UNCHANGED <<recs, now, cfg, prospecting, drain, pendingSingle, singleRun, mails, requests, tasks, audit, automated, searches>>

(* --------------- app/core/tasks/github_prospecting_tasks.py -------------- *)
\* The prospecting tasks and the max_retries of their decorators.
ProspectingTasks == {"run_daily_prospecting", "prospect_github_repos"}

ProspectingRetries(task) ==
    IF task = "run_daily_prospecting" THEN ProspectingMaxRetries ELSE ReposMaxRetries

\* A message of the queue: the task, the id Celery gave the request and
\* self.request.retries.  A retry keeps the id of the request.
Message(task, id, retries) == [task |-> task, id |-> id, retries |-> retries]
NoMessage == Message("none", Null, Null)

\* models/database.py Task: the columns the tasks and the API write.
\* input_data is "scheduled" (run_daily_prospecting), "on demand"
\* (prospect_github_repos) or "api" (the row of the trigger endpoint).
TaskRow(input, status, error, t) ==
    [input_data |-> input, status |-> status, error_message |-> error, completed_at |-> t]
NoError == [kind |-> "none"]
NoTask == TaskRow("none", "none", NoError, Null)
InputData(task) == IF task = "run_daily_prospecting" THEN "scheduled" ELSE "on demand"

\* str(exc) of the exception the workflow raised in the attempt.
WorkflowError(attempt) == [kind |-> "workflow", attempt |-> attempt]

\* The table with the row of id written.
WithTask(id, row) == [k \in DOMAIN tasks \cup {id} |-> IF k = id THEN row ELSE tasks[k]]

\* task.delay(...): a message with a new id and retries = 0 joins the queue.
Delayed(task) ==
    [prospecting EXCEPT !.queue = Append(@, Message(task, prospecting.ids + 1, 0)),
                        !.ids = @ + 1]

\* run_daily_prospecting.delay(), by the beat schedule or by POST
\* /leads/prospect/daily.
trigger_daily_prospecting ==
    /\ Len(prospecting.queue) < MaxJobs
    /\ prospecting.ids < MaxTasks
    /\ prospecting' = Delayed("run_daily_prospecting")
    /\ UNCHANGED <<recs, leads, now, cfg, drain, pendingSingle, singleRun, mails, requests, tasks, audit, automated, searches>>

\* A free worker takes the next message and starts the task (lines 26-48,
\* 104-124): the row Task(id = the id of the request, RUNNING) is added and
\* committed, then the workflow begins.  Where the table has a row of that id
\* (every retry: the attempt before it wrote one) the commit fails on the
\* primary key and the except branch runs with db_task set: its commit
\* writes nothing where the session can be used again after the failed
\* commit, and the task is retried while retries < max_retries; otherwise the
\* commit of the except branch raises and the request ends.
ProspectingStart(w, usable) ==
    /\ prospecting.run[w] = NoMessage
    /\ prospecting.queue # <<>>
    /\ LET m == Head(prospecting.queue) IN
       IF m.id \in DOMAIN tasks
       THEN /\ prospecting' = [prospecting EXCEPT !.queue =
                  IF usable /\ m.retries < ProspectingRetries(m.task)
                  THEN Append(Tail(@), Message(m.task, m.id, m.retries + 1))
                  ELSE Tail(@)]
            /\ UNCHANGED tasks
       ELSE /\ prospecting' = [prospecting EXCEPT !.queue = Tail(@), !.run[w] = m]
            /\ tasks' = WithTask(m.id, TaskRow(InputData(m.task), RUNNING, NoError, Null))
    /\ UNCHANGED <<recs, leads, now, cfg, drain, pendingSingle, singleRun, mails, requests, audit, automated, searches>>

\* The workflow ends (lines 60-68, 135-141) having persisted the leads it
\* found: the row of the request is COMPLETED.
ProspectingFinish(w, issues, autoflush) ==
    /\ prospecting.run[w] # NoMessage
    /\ leads' = ProspectedLeads(issues, autoflush)
    /\ tasks' = WithTask(prospecting.run[w].id,
                         [tasks[prospecting.run[w].id] EXCEPT
                             !.status = COMPLETED, !.completed_at = Day(now)])
    /\ prospecting' = [prospecting EXCEPT !.run[w] = NoMessage]
    /\ UNCHANGED <<recs, now, cfg, drain, pendingSingle, singleRun, mails, requests, audit, automated, searches>>

\* The workflow raises (lines 70-86, 143-159): the row of the request is
\* FAILED with the error, and the task is retried while
\* self.request.retries < max_retries.
ProspectingFail(w) ==
    /\ prospecting.run[w] # NoMessage
    /\ LET m == prospecting.run[w] IN
       /\ tasks' = WithTask(m.id, [tasks[m.id] EXCEPT !.status = FAILED,
                                                      !.error_message = WorkflowError(m.retries),
                                                      !.completed_at = Day(now)])
       /\ IF m.retries < ProspectingRetries(m.task)
          THEN /\ Len(prospecting.queue) < MaxJobs
               /\ prospecting' = [prospecting EXCEPT
                     !.queue = Append(@, Message(m.task, m.id, m.retries + 1)),
                     !.run[w] = NoMessage]
          ELSE prospecting' = [prospecting EXCEPT !.run[w] = NoMessage]
    /\ UNCHANGED <<recs, leads, now, cfg, drain, pendingSingle, singleRun, mails, requests, audit, automated, searches>>

(* -------------------------- app/api/v1/leads.py ------------------------- *)
\* str(e) of a dispatch that failed.
DispatchError == [kind |-> "dispatch"]

\* trigger_github_prospecting: POST /leads/prospect.  The row Task(id = a new
\* uuid4, PENDING) is committed, then prospect_github_repos.delay(...) makes
\* a request with an id of its own; the answer names the id of the row.  A
\* dispatch that raises leaves the row FAILED.
TriggerResponse(dispatchOk) ==
    IF dispatchOk
    THEN [status_code |-> 200, id |-> prospecting.ids + 1]
    ELSE [status_code |-> 500, id |-> Null]

trigger_github_prospecting(dispatchOk) ==
    /\ Len(prospecting.queue) < MaxJobs
    /\ prospecting.ids + 1 < MaxTasks
    /\ LET id == prospecting.ids + 1 IN
       IF dispatchOk
       THEN /\ tasks' = WithTask(id, TaskRow("api", PENDING, NoError, Null))
            /\ prospecting' = [prospecting EXCEPT
                  !.queue = Append(@, Message("prospect_github_repos", id + 1, 0)),
                  !.ids = id + 1]
       ELSE /\ tasks' = WithTask(id, TaskRow("api", FAILED, DispatchError, Null))
            /\ prospecting' = [prospecting EXCEPT !.ids = id]
    /\ UNCHANGED <<recs, leads, now, cfg, drain, pendingSingle, singleRun, mails, requests, audit, automated, searches>>

(* -------------------------- app/api/v1/search.py ------------------------ *)
\* initiate_search: POST /search.  The row Task(id = a new uuid4, PENDING) is
\* committed and _run_agentic_search(task_id, ...) is added to the background
\* tasks of the request: it waits until the answer is sent.
initiate_search ==
    /\ prospecting.ids < MaxTasks
    /\ LET id == prospecting.ids + 1 IN
       /\ tasks' = WithTask(id, TaskRow("search", PENDING, NoError, Null))
       /\ searches' = [k \in DOMAIN searches \cup {id} |->
                          IF k = id THEN "waiting" ELSE searches[k]]
       /\ prospecting' = [prospecting EXCEPT !.ids = id]
    /\ UNCHANGED <<recs, leads, now, cfg, drain, pendingSingle, singleRun, mails, requests, audit, automated>>

\* _run_agentic_search, lines 52-56: the row of the id is read and, where
\* there is one, committed as RUNNING, whatever status it was read with.
SearchStart(id) ==
    /\ id \in DOMAIN searches
    /\ searches[id] = "waiting"
    /\ tasks' = IF id \in DOMAIN tasks
                THEN WithTask(id, [tasks[id] EXCEPT !.status = RUNNING])
                ELSE tasks
    /\ searches' = [searches EXCEPT ![id] = "running"]
    /\ UNCHANGED <<recs, leads, now, cfg, drain, pendingSingle, singleRun, mails, prospecting,
                   requests, audit, automated>>

\* _run_agentic_search, lines 60-77: the workflow returns and the row, read
\* again, is committed as COMPLETED; or it raises and the row, read again, is
\* committed as FAILED with str(e).  Neither branch looks at the status the
\* row was read with.  The background task is over.
SearchEnd(id, ok) ==
    /\ id \in DOMAIN searches
    /\ searches[id] = "running"
    /\ tasks' = IF id \notin DOMAIN tasks THEN tasks
                ELSE IF ok
                THEN WithTask(id, [tasks[id] EXCEPT !.status = COMPLETED,
                                                    !.completed_at = Day(now)])
                ELSE WithTask(id, [tasks[id] EXCEPT !.status = FAILED,
                                                    !.error_message = WorkflowError(0),
                                                    !.completed_at = Day(now)])
    /\ searches' = [k \in DOMAIN searches \ {id} |-> searches[k]]
    /\ UNCHANGED <<recs, leads, now, cfg, drain, pendingSingle, singleRun, mails, prospecting,
                   requests, audit, automated>>

(* -------------------------- app/api/v1/tasks.py ------------------------- *)
\* cancel_task: DELETE /tasks/{task_id}.  An unknown id is answered 404, a
\* row that is neither PENDING nor RUNNING 400.  Otherwise the handler sets
\* status and error_message and evaluates db.func.now(): db is the Session,
\* which has no attribute func, so the handler raises before its commit and
\* the request is answered 500.
SessionHasFunc == FALSE
CancelReason == [kind |-> "cancelled"]

CancelResponse(id) ==
    IF id \notin DOMAIN tasks THEN 404
    ELSE IF tasks[id].status \notin {PENDING, RUNNING} THEN 400
    ELSE IF ~SessionHasFunc THEN 500
    ELSE 200

cancel_task(id) ==
    /\ tasks' = IF CancelResponse(id) = 200
                THEN WithTask(id, [tasks[id] EXCEPT !.status = FAILED,
                                                    !.error_message = CancelReason,
                                                    !.completed_at = Day(now)])
                ELSE tasks
    /\ UNCHANGED <<recs, leads, now, cfg, drain, pendingSingle, singleRun, mails, prospecting,
                   requests, audit, automated, searches>>

\* The position of a stage in NEW < ENRICHED < CONTACTED < REPLIED.
StageRank(stage) ==
    IF stage = LeadNEW THEN 1
    ELSE IF stage = LeadENRICHED THEN 2
    ELSE IF stage = LeadCONTACTED THEN 3
    ELSE IF stage = LeadREPLIED THEN 4
    ELSE 0

(* ----------------------- retries of the Celery tasks -------------------- *)
\* The tasks of outreach_tasks.py and email_monitoring_tasks.py that retry
\* themselves when their body raises.
RetryingTasks == {"send_single_outreach", "send_automated_outreach", "process_email_reply"}

\* No request of the task is in the queue or running; no retry was scheduled.
NoRequest == [retries |-> Null, countdowns |-> <<>>]

\* max_retries of the task decorator.
max_retries(task) ==
    IF task = "send_single_outreach" THEN SingleMaxRetries
    ELSE IF task = "send_automated_outreach" THEN AutomatedMaxRetries
    ELSE ReplyMaxRetries

\* The factor of retry_delay.
RetryBase(task) ==
    IF task = "send_single_outreach" THEN SingleRetryBase
    ELSE IF task = "send_automated_outreach" THEN AutomatedRetryBase
    ELSE ReplyRetryBase

\* A delay that grows by the base with every retry.
RetryDelayLinear(task, retries) == RetryBase(task) * (retries + 1)

\* retry_delay = base * (2 ** self.request.retries)
retry_delay(task, retries) == RetryBase(task) * 2^retries

\* task.delay(...): a request with retries = 0 (the countdowns of an earlier
\* request of the task are forgotten).
TaskDelay(task) ==
    /\ requests[task].retries = Null
    /\ requests' = [requests EXCEPT ![task] = [retries |-> 0, countdowns |-> <<>>]]
    /\ UNCHANGED <<recs, leads, now, cfg, drain, pendingSingle, singleRun, mails, prospecting, tasks, audit, automated, searches>>

\* The body of the task raises before it has written anything (the database
\* does not answer the first query): the except branch rolls back and, while
\* self.request.retries < self.max_retries, calls self.retry with the
\* countdown; otherwise the request ends.
TaskRaises(task) ==
    /\ requests[task].retries # Null
    /\ requests' = [requests EXCEPT ![task] =
          IF @.retries < max_retries(task)
          THEN [retries |-> @.retries + 1,
                countdowns |-> Append(@.countdowns, retry_delay(task, @.retries))]
          ELSE [@ EXCEPT !.retries = Null]]
    /\ UNCHANGED <<recs, leads, now, cfg, drain, pendingSingle, singleRun, mails, prospecting, tasks, audit, automated, searches>>

\* The body of the task returns: the request ends.
TaskReturns(task) ==
    /\ requests[task].retries # Null
    /\ requests' = [requests EXCEPT ![task].retries = Null]
    /\ UNCHANGED <<recs, leads, now, cfg, drain, pendingSingle, singleRun, mails, prospecting, tasks, audit, automated, searches>>

\* An attempt of the request of send_automated_outreach(lead_id = k), lines
\* 97-167.  A missing Lead, one without e-mail and a recent OutreachRequest
\* end the request.  Otherwise the row is added, the mailer answers res and
\* the session is committed (line 150): the request ends; or the commit
\* raises: the rollback of line 156 takes the added row and the stage of the
\* Lead back, and the request is retried while retries < max_retries.
AutomatedSkips(k) ==
    \/ k \notin 1..Len(leads)
    \/ leads[k].email \in {Null, EmptyString}
    \/ RecentOutreach(leads[k].email)

AutomatedAttempt(k, res, commitOk) ==
    LET task == "send_automated_outreach" IN
    /\ requests[task].retries # Null
    /\ IF AutomatedSkips(k)
       THEN /\ requests' = [requests EXCEPT ![task].retries = Null]
            /\ UNCHANGED <<recs, leads, mails>>
       ELSE IF commitOk
       THEN /\ Len(recs) < MaxOutreach
            /\ recs' = Append(recs, NewOutreach(leads[k].email, Null, ~cfg.automated, Day(now)))
            /\ mails' = [mails EXCEPT ![Len(recs) + 1] = Mailed(NoMails, res)]
            /\ leads' = IF res.success
                        THEN [leads EXCEPT ![k].stage = LeadCONTACTED]
                        ELSE leads
            /\ requests' = [requests EXCEPT ![task].retries = Null]
       ELSE /\ requests' = [requests EXCEPT ![task] =
                  IF @.retries < max_retries(task)
                  THEN [retries |-> @.retries + 1,
                        countdowns |-> Append(@.countdowns, retry_delay(task, @.retries))]
                  ELSE [@ EXCEPT !.retries = Null]]
            /\ UNCHANGED <<recs, leads, mails>>
    /\ UNCHANGED <<now, cfg, prospecting, drain, pendingSingle, singleRun, tasks, audit, automated, searches>>

(* --------------------------- specifications ---------------------------- *)
NoObs == [op |-> "none"]

TypeOK ==
    /\ Len(recs) <= MaxOutreach
    /\ now \in 0..MaxTick
    /\ \A i \in Ids : pendingSingle[i] \in 0..MaxPending

\* No OutreachRequest; one Lead, of issue 1 and with e-mail 1, as the
\* prospecting has stored it; the
\* webhook secret is configured and automated outreach is off (its default).
InitStored ==
    /\ recs = <<>>
    /\ leads = <<NewLead(1, 1, Double000, Day(0))>>
    /\ now = 0
    /\ cfg = [secret |-> 1, automated |-> FALSE]
    /\ drain = [w \in Workers |-> IdleDrain]
    /\ pendingSingle = [i \in Ids |-> 0]
    /\ singleRun = [i \in Ids |-> "idle"]
    /\ mails = [i \in Ids |-> NoMails]
    /\ prospecting = [queue |-> <<>>, run |-> [w \in Workers |-> NoMessage], ids |-> 0]
    /\ requests = [task \in RetryingTasks |-> NoRequest]
    /\ tasks = [id \in {} |-> NoTask]
    /\ audit = HealthyStore
    /\ automated = [w \in Workers |-> NoRun]
    /\ searches = [id \in {} |-> "waiting"]

Init == InitStored /\ obs = NoObs

BulkInputs == UNION {[1..n -> Ids] : n \in 0..MaxOutreach}
Signatures == {Null} \cup 0..(NumDigests - 1)

\* The requests and task runs of a step.  Where O is TRUE the request and its
\* HTTP status are observed in obs.
Create(E, D, A, N) == \E e \in E, d \in D, a \in A :
    Len(recs) < N /\ create_outreach_request(e, d, a) /\ obs' = NoObs
Enqueue(O) == \E i \in Ids, ok \in BOOLEAN :
    /\ send_outreach_request(i, ok)
    /\ obs' = IF O THEN [op |-> "send", id |-> i, code |-> SendResponse(i, ok)] ELSE NoObs
Approve == \E i \in Ids :
    approve_outreach_request(i, 1) /\ obs' = NoObs
Bulk == \E ids \in BulkInputs, failing \in SUBSET Ids :
    /\ send_bulk_outreach(ids, failing)
    /\ obs' = [op |-> "bulk", ids |-> ids, code |-> BulkResponse(ids)]
Drain(W) == \E w \in W :
    (DrainStart(w) \/ DrainClaim(w) \/ DrainSend(w) \/ DrainFinish(w)) /\ obs' = NoObs
Single == \E i \in Ids : (SingleStart(i) \/ SingleSend(i)) /\ obs' = NoObs
Automated == \E k \in 1..Len(leads) :
    send_automated_outreach(k) /\ obs' = NoObs
Cleanup == cleanup_old_outreach_records /\ obs' = NoObs
Clock == Tick /\ UNCHANGED obs

\* The API, the single-send task, automated outreach and cleanup.
Next ==
    \/ Create(Emails, {Null}, BOOLEAN, MaxOutreach)
    \/ Enqueue(TRUE)
    \/ Approve
    \/ Bulk
    \/ Single
    \/ Automated
    \/ Cleanup
    \/ Clock

Spec == Init /\ [][Next]_vars

\* Concurrent runs of the queue drain.
NextDrain ==
    \/ Create(Emails, {Null}, BOOLEAN, MaxOutreach)
    \/ Enqueue(FALSE)
    \/ Approve
    \/ Drain(Workers)

SpecDrain == Init /\ [][NextDrain]_vars

\* A queue drain beside the single-send tasks the send endpoint dispatches.
NextRace ==
    \/ Create(Emails, {Null}, BOOLEAN, MaxOutreach)
    \/ Enqueue(FALSE)
    \/ Approve
    \/ Drain({1})
    \/ Single

SpecRace == Init /\ [][NextRace]_vars

\* How the signature header of a request relates to HMAC(secret, body).
SigClass(ev, signature) ==
    IF signature = Null THEN "missing"
    ELSE IF cfg.secret # Null /\ signature = Hmac(cfg.secret, ev) THEN "valid"
    ELSE "invalid"

Webhook == \E ev \in Bodies, signature \in Signatures :
    /\ handle_agentmail_webhook(ev, signature)
    /\ obs' = [op |-> "webhook", sig |-> SigClass(ev, signature),
               code |-> WebhookResponse(ev, signature)]
Monitor == \E msg \in InboxMessages :
    monitor_inbound_emails(msg) /\ obs' = NoObs

\* Sending by the single-send task, and what comes back: webhook events and
\* the inbox messages the monitoring task polls.
NextInbound ==
    \/ Create(Emails, Datasets \cup {Null}, {FALSE}, InboundRows)
    \/ Enqueue(FALSE)
    \/ Single
    \/ Webhook
    \/ Monitor
    \/ Clock

SpecInbound == Init /\ [][NextInbound]_vars

\* Polls of the inbox one after another.  What a run of the monitoring task
\* reports for the message it saw is observed, with whether the run changed
\* an OutreachRequest or a Lead and with the message and the report of the
\* run before it where no other request came between the two.
NoPoll == [msg |-> InboxMessage(Null, Null, Null), reason |-> "none"]
PollReason(msg) ==
    IF ReplyMatches(msg) = {} THEN "no_matching_outreach"
    ELSE IF recs' = recs THEN "already_processed"
    ELSE "processed"

Poll == \E msg \in InboxMessages :
    /\ monitor_inbound_emails(msg)
    /\ obs' = [op |-> "monitor", msg |-> msg, reason |-> PollReason(msg),
               changed |-> (recs' # recs \/ leads' # leads),
               before |-> IF obs.op = "monitor"
                          THEN [msg |-> obs.msg, reason |-> obs.reason] ELSE NoPoll]

NextPoll ==
    \/ Create(Emails, {Null}, {FALSE}, InboundRows)
    \/ Enqueue(FALSE)
    \/ Single
    \/ Poll
    \/ Clock

SpecPoll == Init /\ [][NextPoll]_vars

\* A reply event with a signature that verifies, delivered once or again.
SignedReplies ==
    {Event("message.received", m, Null, Null, at, att) :
        m \in MsgIds, at \in Instants \cup {Null, Unparseable}, att \in BOOLEAN}

Redeliver == \E ev \in SignedReplies :
    /\ handle_agentmail_webhook(ev, Hmac(cfg.secret, ev))
    /\ obs' = [op |-> "webhook", ev |-> ev]

NextRedeliver ==
    \/ Create(Emails, {Null}, {FALSE}, MaxOutreach)
    \/ Enqueue(FALSE)
    \/ Single
    \/ Redeliver
    \/ Clock

SpecRedeliver == Init /\ [][NextRedeliver]_vars

\* The single-send task with the answer of the mailer observed.
SingleObserved == \E i \in Ids :
    \/ SingleStart(i) /\ obs' = NoObs
    \/ \E res \in MailerResults(i) :
          /\ singleRun[i] = "sending"
          /\ MailerCalled(i)
          /\ SingleSendWith(i, res)
          /\ obs' = [op |-> "mailer", id |-> i, success |-> res.success,
                     status_code |-> res.status_code]
    \/ singleRun[i] = "sending" /\ ~MailerCalled(i) /\ SingleSend(i) /\ obs' = NoObs

NextRetry ==
    \/ Create(Emails, {Null}, BOOLEAN, MaxOutreach)
    \/ Enqueue(FALSE)
    \/ Approve
    \/ SingleObserved

SpecRetry == Init /\ [][NextRetry]_vars

\* The approve endpoint with its request and answer observed.
Approvers == {1, 2}

ApproveObserved == \E i \in Ids, by \in Approvers :
    /\ approve_outreach_request(i, by)
    /\ obs' = [op |-> "approve", id |-> i, by |-> by, code |-> ApproveResponse(i)]

NextApprove ==
    \/ Create(Emails, {Null}, BOOLEAN, MaxOutreach)
    \/ Enqueue(FALSE)
    \/ ApproveObserved
    \/ Single
    \/ Clock

SpecApprove == Init /\ [][NextApprove]_vars

\* One queue drain at a time, over records created at different instants.
NextQueue ==
    \/ Create(Emails, {Null}, BOOLEAN, MaxOutreach)
    \/ Enqueue(FALSE)
    \/ Approve
    \/ Drain({1})
    \/ Clock

SpecQueue == Init /\ [][NextQueue]_vars

\* Prospecting, automated outreach and the replies that come back.
Persist == \E e \in Emails, autoflush \in BOOLEAN :
    persist_leads_to_db(<<ScrapedIssue(e, e, TRUE)>>, autoflush) /\ obs' = NoObs

NextLeads ==
    \/ Persist
    \/ Automated
    \/ Monitor
    \/ Clock

SpecLeads == Init /\ [][NextLeads]_vars

\* The issues of a run: at most one of each author, issue e of the author
\* with e-mail e, all to be contacted.
AuthorIssues ==
    {q \in UNION {[1..n -> {ScrapedIssue(e, e, TRUE) : e \in Emails}] : n \in 0..NumEmails} :
        \A a, b \in 1..Len(q) : a < b => q[a] # q[b]}

\* The daily prospecting job: scheduled or triggered, run by the workers.
Prospecting ==
    \/ trigger_daily_prospecting /\ obs' = NoObs
    \/ \E w \in Workers :
          \/ \E usable \in BOOLEAN : ProspectingStart(w, usable) /\ obs' = NoObs
          \/ ProspectingFail(w) /\ obs' = NoObs
          \/ \E issues \in AuthorIssues, autoflush \in BOOLEAN :
                ProspectingFinish(w, issues, autoflush) /\ obs' = NoObs

NextProspecting ==
    \/ Prospecting
    \/ Automated
    \/ Clock

SpecProspecting == Init /\ [][NextProspecting]_vars

\* Signed webhook events of the handled types with the answer observed:
\* whether a record matched and the "status" of the JSON answer.
HandledEvents ==
    {Event(t, m, Null, d, Null, FALSE) :
        t \in {"message.received", "message.delivered", "message.bounced"},
        m \in MsgIds \cup {Null}, d \in Datasets \cup {Null}}

WebhookAnswered == \E ev \in HandledEvents \cup OtherEvents :
    /\ handle_agentmail_webhook(ev, Hmac(cfg.secret, ev))
    /\ obs' = [op |-> "webhook", code |-> WebhookResponse(ev, Hmac(cfg.secret, ev)),
               handled |-> ev \in HandledEvents, matched |-> Matches(ev) # {},
               status |-> WebhookStatus(ev)]

NextAnswer ==
    \/ Create(Emails, Datasets \cup {Null}, {FALSE}, MaxOutreach)
    \/ Enqueue(FALSE)
    \/ Single
    \/ WebhookAnswered

SpecAnswer == Init /\ [][NextAnswer]_vars

\* Every variable but obs.
stored == <<recs, leads, now, cfg, drain, pendingSingle, singleRun, mails, prospecting, requests, tasks, audit, automated, searches>>

\* Scored issues: the scores 0.59, 0.6 and 0.9 and the double that
\* 0.2 + 0.2 + 0.2 gives, 0.6000000000000001, with an e-mail, with None and
\* with "".
ScoreInputs == {Double059, Double060, Double060Sum, Double090}
Issue(score, email) == [novice_score |-> score, email |-> email]
IssueInputs == {Issue(v, e) : v \in ScoreInputs, e \in {Null, EmptyString, 1}}
IssueLists == UNION {[1..n -> IssueInputs] : n \in 0..MaxIssues}

\* The scoring functions: a call with its arguments, then its return value.
InitScoring ==
    /\ InitStored
    /\ obs \in {[op |-> "signals", signals |-> s] : s \in SignalInputs}
               \cup {[op |-> "issues", issues |-> q] : q \in IssueLists}

Score ==
    /\ obs.op = "signals"
    /\ obs' = [op |-> "score", signals |-> obs.signals,
               score |-> calculate_novice_score(obs.signals)]
    /\ UNCHANGED stored

Filter ==
    /\ obs.op = "issues"
    /\ obs' = [op |-> "filter", issues |-> obs.issues,
               result |-> filter_high_scoring_leads(obs.issues)]
    /\ UNCHANGED stored

NextScoring ==
    \/ Score
    \/ Filter

SpecScoring == InitScoring /\ [][NextScoring]_vars

\* Prospecting runs over any issues, with the leads they persist observed,
\* beside changes of a lead's stage.
PipelineIssues ==
    {ScrapedIssue(u, e, TRUE) : u \in Urls, e \in Emails}
        \cup {ScrapedIssue(1, Null, TRUE), ScrapedIssue(1, 1, FALSE)}
IssueBatches == UNION {[1..n -> PipelineIssues] : n \in 0..MaxBatch}

\* Observed of a run: the last lead of its batch (none: Null), whether the
\* batch had an issue_url twice and whether the commit went through.
Pipeline == \E issues \in IssueBatches, autoflush \in BOOLEAN :
    LET q == QualifiedLeads(issues) IN
    /\ prospect_github_issues(issues, autoflush)
    /\ Len(leads') <= MaxLeads
    /\ obs' = [op |-> "prospect",
               issue_url |-> IF q = <<>> THEN Null ELSE q[Len(q)].issue_url,
               email |-> IF q = <<>> THEN Null ELSE q[Len(q)].email,
               twice |-> \E a, b \in 1..Len(q) : a < b /\ q[a].issue_url = q[b].issue_url,
               committed |-> q # <<>> /\ UniqueIssueUrl(SessionAfter(leads, q, autoflush))]

UpdateStage == \E k \in 1..Len(leads) :
    update_lead_stage(k, LeadCONTACTED) /\ obs' = NoObs

NextPersist ==
    \/ Pipeline
    \/ UpdateStage
    \/ Clock

SpecPersist == Init /\ [][NextPersist]_vars

\* Requests of the retrying tasks whose body raises or returns.
Dispatch == \E task \in RetryingTasks : TaskDelay(task) /\ obs' = NoObs
Raise == \E task \in RetryingTasks : TaskRaises(task) /\ obs' = NoObs
Return == \E task \in RetryingTasks : TaskReturns(task) /\ obs' = NoObs

NextBackoff ==
    \/ Dispatch
    \/ Raise
    \/ Return

SpecBackoff == Init /\ [][NextBackoff]_vars

\* The prospecting tasks, triggered through the API or scheduled, with their
\* Task rows; the start of a request and the answers of the endpoints are
\* observed.
TaskIds == 1..MaxTasks

Trigger == \E dispatchOk \in BOOLEAN :
    /\ trigger_github_prospecting(dispatchOk)
    /\ obs' = [op |-> "trigger", status_code |-> TriggerResponse(dispatchOk).status_code,
               id |-> TriggerResponse(dispatchOk).id]

TriggerDaily == trigger_daily_prospecting /\ obs' = NoObs

Work == \E w \in Workers :
    \/ \E usable \in BOOLEAN :
          /\ ProspectingStart(w, usable)
          /\ obs' = [op |-> "start", message |-> Head(prospecting.queue)]
    \/ ProspectingFail(w) /\ obs' = NoObs
    \/ ProspectingFinish(w, <<>>, TRUE) /\ obs' = NoObs

Cancel == \E id \in TaskIds :
    /\ cancel_task(id)
    /\ obs' = [op |-> "cancel", id |-> id, status_code |-> CancelResponse(id)]

NextTasks ==
    \/ Trigger
    \/ TriggerDaily
    \/ Work
    \/ Cancel
    \/ Clock

SpecTasks == Init /\ [][NextTasks]_vars

\* Searches and daily prospecting beside cancel_task: the ids cancel_task was
\* called for while their rows were PENDING or RUNNING are observed.
InitCancel == InitStored /\ obs = [op |-> "cancelled", ids |-> {}]

Search ==
    \/ initiate_search /\ UNCHANGED obs
    \/ \E id \in TaskIds : SearchStart(id) /\ UNCHANGED obs
    \/ \E id \in TaskIds, ok \in BOOLEAN : SearchEnd(id, ok) /\ UNCHANGED obs

Prospect ==
    \/ trigger_daily_prospecting /\ UNCHANGED obs
    \/ \E w \in Workers, usable \in BOOLEAN : ProspectingStart(w, usable) /\ UNCHANGED obs
    \/ \E w \in Workers : ProspectingFail(w) /\ UNCHANGED obs
    \/ \E w \in Workers : ProspectingFinish(w, <<>>, TRUE) /\ UNCHANGED obs

CancelLive == \E id \in TaskIds :
    /\ cancel_task(id)
    /\ obs' = [obs EXCEPT !.ids = IF CancelResponse(id) \in {200, 500} THEN @ \cup {id} ELSE @]

NextCancel ==
    \/ Search
    \/ Prospect
    \/ CancelLive

SpecCancel == InitCancel /\ [][NextCancel]_vars

\* Sends and webhook events while the audit store fails and recovers; the
\* answer of the mailer and the event are observed.
AuditStoreChanges ==
    /\ audit' \in AuditStores \ {audit}
    /\ obs' = NoObs
    /\ UNCHANGED <<recs, leads, now, cfg, drain, pendingSingle, singleRun, mails, prospecting,
                   requests, tasks, automated, searches>>

SingleAudited == \E i \in Ids :
    \/ SingleStart(i) /\ obs' = NoObs
    \/ \E res \in MailerResults(i) :
          SingleSendWith(i, res) /\ obs' = [op |-> "send", id |-> i, res |-> res]

WebhookAudited == \E ev \in HandledEvents :
    /\ handle_agentmail_webhook(ev, Hmac(cfg.secret, ev))
    /\ obs' = [op |-> "webhook", ev |-> ev,
               code |-> WebhookResponse(ev, Hmac(cfg.secret, ev))]

NextAudit ==
    \/ Create(Emails, {Null}, {FALSE}, InboundRows)
    \/ Enqueue(FALSE)
    \/ SingleAudited
    \/ WebhookAudited
    \/ AuditStoreChanges

SpecAudit == Init /\ [][NextAudit]_vars

\* Workers running send_automated_outreach at the same time, for the leads
\* the prospecting stored (issues of one author or of several).
PersistAny == \E u \in Urls, e \in Emails :
    persist_leads_to_db(<<ScrapedIssue(u, e, TRUE)>>, TRUE) /\ obs' = NoObs

AutomatedRuns == \E w \in Workers :
    \/ \E k \in 1..Len(leads) : AutomatedCheck(w, k) /\ obs' = NoObs
    \/ AutomatedSend(w) /\ obs' = NoObs

NextDuplicate ==
    \/ PersistAny
    \/ AutomatedRuns
    \/ Clock

SpecDuplicate == Init /\ [][NextDuplicate]_vars

\* The single-send task on workers that may be lost while they send.
SingleCrashes == \E i \in Ids, reached \in BOOLEAN : \E res \in MailerResults(i) :
    SingleCrash(i, reached, res) /\ obs' = NoObs

NextCrash ==
    \/ Create(Emails, {Null}, {FALSE}, MaxOutreach)
    \/ Enqueue(FALSE)
    \/ Single
    \/ SingleCrashes
    \/ Clock

SpecCrash == Init /\ [][NextCrash]_vars

\* One request of send_automated_outreach at a time, for a Lead the
\* prospecting stored, with commits that may fail.  Observed: the Lead of the
\* request and how often the mailer accepted the invite in its attempts.
AutomatedDispatch == \E k \in 1..Len(leads) :
    /\ TaskDelay("send_automated_outreach")
    /\ obs' = [op |-> "automated", lead |-> k, accepted |-> 0]

AutomatedAttempts == \E commitOk \in BOOLEAN : \E res \in MailerResults(Len(recs) + 1) :
    /\ obs.op = "automated"
    /\ AutomatedAttempt(obs.lead, res, commitOk)
    /\ obs' = [obs EXCEPT !.accepted =
          IF ~AutomatedSkips(obs.lead) /\ res.success THEN @ + 1 ELSE @]

NextRetried ==
    \/ PersistAny
    \/ AutomatedDispatch
    \/ AutomatedAttempts
    \/ Clock

SpecRetried == Init /\ [][NextRetried]_vars

\* The queue drain over a queue that holds, before a record that may be
\* sent, up to DrainBatchSize older records waiting for approval: records
\* that require approval, set QUEUED by PUT /{outreach_id}/status
\* (outreach.py, lines 160-180; the send endpoint queues them too and
\* dispatches a send).  The beat schedule starts a drain again and again,
\* the mailer always answers, and records may be approved.
StarveIds == 1..(DrainBatchSize + 1)

QueuedRow(approval, t) == [NewOutreach(1, Null, approval, t) EXCEPT !.status = QUEUED]

InitStarve ==
    /\ \E n \in 0..DrainBatchSize :
          recs = [k \in 1..(n + 1) |-> QueuedRow(k <= n, Day(MaxTick) - (n + 1 - k))]
    /\ leads = <<NewLead(1, 1, Double000, Day(0))>>
    /\ now = MaxTick
    /\ cfg = [secret |-> 1, automated |-> FALSE]
    /\ drain = [w \in Workers |-> IdleDrain]
    /\ pendingSingle = [i \in StarveIds |-> 0]
    /\ singleRun = [i \in StarveIds |-> "idle"]
    /\ mails = [i \in StarveIds |-> NoMails]
    /\ prospecting = [queue |-> <<>>, run |-> [w \in Workers |-> NoMessage], ids |-> 0]
    /\ requests = [task \in RetryingTasks |-> NoRequest]
    /\ tasks = [id \in {} |-> NoTask]
    /\ audit = HealthyStore
    /\ automated = [w \in Workers |-> NoRun]
    /\ searches = [id \in {} |-> "waiting"]
    /\ obs = NoObs

NextStarve ==
    \/ Drain({1})
    \/ Approve

SpecStarve == InitStarve /\ [][NextStarve]_vars /\ WF_vars(Drain({1}))

\* The queue drain and the single-send task on workers that may be lost.
\* The beat schedule starts a drain again and again, a delivered message is
\* taken by a worker, and workers are not lost forever: a run that can
\* complete again and again does complete.
DrainCrashes == \E w \in {1} : DrainCrash(w) /\ obs' = NoObs

NextLost ==
    \/ Create(Emails, {Null}, {FALSE}, InboundRows)
    \/ Enqueue(FALSE)
    \/ Drain({1})
    \/ Single
    \/ SingleCrashes
    \/ DrainCrashes

SpecLost ==
    /\ Init
    /\ [][NextLost]_vars
    /\ WF_vars(Drain({1}))
    /\ SF_vars(DrainSend(1) /\ obs' = NoObs)
    /\ SF_vars(DrainFinish(1) /\ obs' = NoObs)
    /\ \A i \in Ids : WF_vars(SingleStart(i) /\ obs' = NoObs)
    /\ \A i \in Ids : SF_vars(SingleSend(i) /\ obs' = NoObs)

(* ------------------------------ properties ----------------------------- *)
\* C1: for any interleaving of concurrently running queue drains, no
\* OutreachRequest is taken to SENDING by more than one of them, and the
\* mailer is invoked at most once for a record the drains process.
C1_DrainsExclusive ==
    /\ \A v, w \in Workers :
          (v # w /\ drain[v].pc = "sending" /\ drain[w].pc = "sending")
              => Head(drain[v].batch) # Head(drain[w].batch)
    /\ \A i \in 1..Len(recs) : mails[i].calls <= 1

\* C2: every change of the status of an OutreachRequest is an edge of the
\* graph DRAFT->QUEUED->SENDING->{SENT|FAILED}, SENT->{DELIVERED|REPLIED|CLOSED},
\* DELIVERED->REPLIED, FAILED->{QUEUED|CLOSED}.
C2_StatusEdges ==
    [][\A i \in 1..Len(recs) :
          recs'[i].status # recs[i].status =>
              <<recs[i].status, recs'[i].status>> \in
                  {<<DRAFT, QUEUED>>, <<QUEUED, SENDING>>, <<SENDING, SENT>>,
                   <<SENDING, FAILED>>, <<SENT, DELIVERED>>, <<SENT, REPLIED>>,
                   <<SENT, CLOSED>>, <<DELIVERED, REPLIED>>, <<FAILED, QUEUED>>,
                   <<FAILED, CLOSED>>}]_vars

\* C3: an OutreachRequest with approval_required and no approved_at is never
\* QUEUED or SENDING, and the mailer was never invoked for it.
C3_GateBlocksSend ==
    \A i \in 1..Len(recs) :
        Gated(recs[i]) => (recs[i].status \notin {QUEUED, SENDING} /\ mails[i].calls = 0)

\* C4: the send endpoint on a DRAFT or FAILED record that requires approval
\* and is not approved is rejected: the status stays and no task is dispatched.
C4_EnqueueRejectsGated ==
    [][(/\ obs'.op = "send"
        /\ now' = now
        /\ Exists(obs'.id)
        /\ recs[obs'.id].status \in {DRAFT, FAILED}
        /\ Gated(recs[obs'.id]))
          => (/\ obs'.code \in 400..499
              /\ recs' = recs
              /\ pendingSingle' = pendingSingle)]_vars

\* C5: a bulk send with an id that does not exist, is not DRAFT or FAILED, or
\* requires approval and is unapproved aborts with 400: no status changes and
\* no send task is dispatched for any id of the batch.
C5_BulkAllOrNothing ==
    [][(/\ obs'.op = "bulk"
        /\ now' = now
        /\ \E k \in 1..Len(obs'.ids) :
              \/ ~Exists(obs'.ids[k])
              \/ recs[obs'.ids[k]].status \notin {DRAFT, FAILED}
              \/ Gated(recs[obs'.ids[k]]))
          => (/\ obs'.code = 400
              /\ recs' = recs
              /\ pendingSingle' = pendingSingle
              /\ mails' = mails)]_vars

\* C5 happens: a batch of an approved DRAFT record and a gated record was
\* answered with 400.
C5_Witness ==
    /\ obs.op = "bulk"
    /\ obs.code = 400
    /\ Len(obs.ids) = 2
    /\ Len(recs) = 2
    /\ obs.ids[1] # obs.ids[2]
    /\ \E k \in 1..2 : recs[obs.ids[k]].status = DRAFT /\ ~Gated(recs[obs.ids[k]])
    /\ \E k \in 1..2 : Gated(recs[obs.ids[k]])

\* C6: there are never two OutreachRequests to the same contact_email that
\* were created within DedupWindowDays of each other.
C6_NoRecentDuplicate ==
    \A i, j \in 1..Len(recs) :
        (i < j /\ recs[i].contact_email = recs[j].contact_email)
            => recs[j].created_at - recs[i].created_at > DedupWindowDays

\* C7: with a webhook secret configured, a request whose signature is missing
\* or is not the HMAC of the body is answered 401 and writes nothing.
C7_BadSignatureRejected ==
    [][(/\ obs'.op = "webhook"
        /\ now' = now
        /\ cfg.secret # Null
        /\ obs'.sig \in {"missing", "invalid"})
          => (/\ obs'.code = 401
              /\ recs' = recs
              /\ leads' = leads)]_vars

\* C7 happens: a request with a wrong signature was answered 401 while a SENT
\* record was waiting for its events.
C7_Witness ==
    /\ obs.op = "webhook"
    /\ obs.sig = "invalid"
    /\ obs.code = 401
    /\ \E i \in 1..Len(recs) : recs[i].status = SENT /\ recs[i].message_id # Null

\* C8: delivering the same received event again leaves the OutreachRequests
\* and the Leads as the first delivery left them.
C8_RedeliveryIdempotent ==
    [][(obs.op = "webhook" /\ obs' = obs) => (recs' = recs /\ leads' = leads)]_vars

\* C9: replied_at of an OutreachRequest never decreases.
C9_RepliedAtMonotone ==
    [][\A i \in 1..Len(recs) :
          recs[i].replied_at # Null => recs'[i].replied_at >= recs[i].replied_at]_vars

\* C10: a record enqueued through the send endpoint is e-mailed at most once,
\* however the dispatched send_single_outreach interleaves with a queue drain.
C10_EnqueuedMailedOnce == \A i \in Ids : mails[i].sent <= 1

\* C11: after a transient failure of the mailer (rate limit or 5xx) the send
\* task is scheduled again and the record is not FAILED; after a permanent
\* failure (another 4xx) the record is FAILED and no retry is scheduled.
C11_TransientRetried ==
    [][(obs'.op = "mailer" /\ ~obs'.success /\ obs'.status_code # Null) =>
          IF obs'.status_code = 429 \/ obs'.status_code >= 500
          THEN /\ recs'[obs'.id].status # FAILED
               /\ pendingSingle'[obs'.id] = pendingSingle[obs'.id] + 1
          ELSE /\ recs'[obs'.id].status = FAILED
               /\ pendingSingle' = pendingSingle]_vars

\* C12: approve on a record that requires approval and is not approved sets
\* approved_at and approved_by, takes a DRAFT record to QUEUED and leaves every
\* other status; approve on any other record is rejected and changes nothing.
C12_ApproveEffect ==
    [][(obs'.op = "approve" /\ now' = now /\ Exists(obs'.id)) =>
          LET i == obs'.id IN
          IF Gated(recs[i])
          THEN /\ obs'.code = 200
               /\ recs'[i].approved_at # Null
               /\ recs'[i].approved_by = obs'.by
               /\ recs'[i].status = IF recs[i].status = DRAFT THEN QUEUED ELSE recs[i].status
               /\ \A j \in 1..Len(recs) : j # i => recs'[j] = recs[j]
          ELSE /\ obs'.code \in 400..499
               /\ recs' = recs]_vars

\* C12 happens: a FAILED record that required approval was approved and is
\* still FAILED.
C12_Witness ==
    /\ obs.op = "approve"
    /\ obs.code = 200
    /\ Exists(obs.id)
    /\ recs[obs.id].status = FAILED
    /\ recs[obs.id].approved_at # Null
    /\ recs[obs.id].approved_by = obs.by

C14_SuccessStored ==
    \A i \in 1..Len(recs) :
        (mails[i].sent > 0 /\ singleRun[i] = "idle") =>
            /\ recs[i].status = SENT
            /\ recs[i].message_id # Null
            /\ recs[i].sent_at # Null

\* C15: while an OutreachRequest is REPLIED, a Lead with its contact e-mail
\* has stage REPLIED.
C15_ReplyCascades ==
    \A i \in 1..Len(recs) :
        recs[i].status = REPLIED =>
            \A k \in LeadsOf(recs[i].contact_email) : leads[k].stage = LeadREPLIED

\* C16: the stage of a Lead never moves backwards in
\* NEW < ENRICHED < CONTACTED < REPLIED.
C16_StageAdvances ==
    [][\A k \in 1..Len(leads) :
          StageRank(leads'[k].stage) >= StageRank(leads[k].stage)]_vars

\* C17: at most one invocation of run_daily_prospecting executes its
\* workflow at any time.
C17_ProspectingExclusive ==
    Cardinality({w \in Workers : prospecting.run[w] # NoMessage}) <= 1

\* C18: once an OutreachRequest is CLOSED no operation changes its status.
C18_ClosedTerminal ==
    [][\A i \in 1..Len(recs) :
          recs[i].status = CLOSED => recs'[i].status = CLOSED]_vars

\* C19: for every event of a handled type and every content of the store, the
\* record a handler selects is the first match of the chain thread_id, then
\* message_id, then dataset_id of the event (the events carry no thread_id
\* and no sender here).
C19_MatchChain ==
    \A ev \in HandledEvents :
        LET byMessage == IF ev.message_id # Null
                         THEN {i \in 1..Len(recs) : recs[i].message_id = ev.message_id}
                         ELSE {}
            byDataset == IF ev.dataset_id # Null
                         THEN {i \in 1..Len(recs) : recs[i].dataset_id = ev.dataset_id}
                         ELSE {}
        IN  Matches(ev) = (IF byMessage # {} THEN byMessage ELSE byDataset)

\* C20: when no OutreachRequest matches an event of a handled type, no record
\* changes and the endpoint answers with status "ignored".
C20_NoMatchIgnored ==
    [][(obs'.op = "webhook" /\ obs'.code = 200 /\ obs'.handled /\ ~obs'.matched) =>
          (recs' = recs /\ leads' = leads /\ obs'.status = "ignored")]_vars

\* C21: calculate_novice_score is, in hundredths, the sum clamped to 0..100 of
\* 20 for a known account age below 365, 20 for known followers below 5, 10
\* for known public repos below 5, 20 for a matched keyword, 10 for
\* code_blocks_present exactly false, 10 for a label among question, help
\* wanted, usage, documentation and beginner, 10 for a body length below 400
\* and 5 for the punctuation-excess flag; an unknown signal adds nothing.
C21_ScoreIsClampedSum ==
    obs.op = "score" =>
        LET s == obs.signals
            sum == (IF s.account_age_days # Null /\ s.account_age_days < 365 THEN 20 ELSE 0)
                 + (IF s.followers # Null /\ s.followers < 5 THEN 20 ELSE 0)
                 + (IF s.public_repos # Null /\ s.public_repos < 5 THEN 10 ELSE 0)
                 + (IF s.keywords # {} THEN 20 ELSE 0)
                 + (IF s.code_blocks_present = PyFalse THEN 10 ELSE 0)
                 + (IF s.labels \cap {"question", "help wanted", "usage",
                                      "documentation", "beginner"} # {} THEN 10 ELSE 0)
                 + (IF s.issue_body_length # Null /\ s.issue_body_length < 400 THEN 10 ELSE 0)
                 + (IF s.punctuation_excess = PyTrue THEN 5 ELSE 0)
        IN  Hundredths(obs.score) = (IF sum > 100 THEN 100 ELSE IF sum < 0 THEN 0 ELSE sum)

\* C21 happens: the example input (account age 90, 2 followers, 1 public repo,
\* keyword "help", no code blocks, label "question", body length 120, no
\* punctuation excess) was scored, with 100 hundredths.
C21_Witness ==
    /\ obs.op = "score"
    /\ obs.signals = Signals(90, 2, 1, {"help"}, PyFalse, {"question"}, 120, PyFalse)
    /\ Hundredths(obs.score) = 100

\* C22: filter_high_scoring_leads returns exactly the given leads with a score
\* of at least 0.6 and a contact e-mail, by score descending.
C22_FilterSelects ==
    obs.op = "filter" =>
        LET Count(q, v) == Cardinality({k \in 1..Len(q) : q[k] = v})
            Accepted(v) == Hundredths(v.novice_score) >= 60
                               /\ v.email \notin {Null, EmptyString}
        IN  /\ \A v \in IssueInputs :
                   Count(obs.result, v) = IF Accepted(v) THEN Count(obs.issues, v) ELSE 0
            /\ \A a, b \in 1..Len(obs.result) : a < b =>
                   ~DoubleLess(obs.result[a].novice_score, obs.result[b].novice_score)

\* C22 happens: of a lead scoring 0.59 with an e-mail, one scoring 0.9 without
\* and one scoring 0.6 with an e-mail, the last alone was returned.
C22_Witness ==
    /\ obs.op = "filter"
    /\ obs.issues = <<Issue(Double059, 1), Issue(Double090, Null), Issue(Double060, 1)>>
    /\ obs.result = <<Issue(Double060, 1)>>

\* C23: every Lead the prospecting inserts with stage ENRICHED is qualified:
\* its novice_score is at least 0.6 and its e-mail is present.
C23_InsertedQualified ==
    [][\A k \in (Len(leads) + 1)..Len(leads') :
          leads'[k].stage = LeadENRICHED =>
              /\ ~DoubleLess(leads'[k].novice_score, Double060)
              /\ leads'[k].email \notin {Null, EmptyString}]_vars

\* C24: there is at most one Lead per issue_url, whatever the prospecting
\* runs persisted (batches with an issue_url more than once included); a row
\* keeps its id and its created_at, and a run that persists an issue_url the
\* table has updates the row of that issue_url (observed for the last lead of
\* the batch).
C24_UpsertByIssueUrl ==
    [][/\ \A a, b \in 1..Len(leads') : a < b => leads'[a].issue_url # leads'[b].issue_url
       /\ Len(leads') >= Len(leads)
       /\ \A k \in 1..Len(leads) :
              /\ leads'[k].issue_url = leads[k].issue_url
              /\ leads'[k].created_at = leads[k].created_at
       /\ (obs'.op = "prospect" /\ obs'.committed /\ now' = now) =>
              \A k \in 1..Len(leads) :
                  leads[k].issue_url = obs'.issue_url
                      => (/\ leads'[k].email = obs'.email
                          /\ leads'[k].stage = LeadENRICHED)]_vars

\* C24 happens: a run persisted issue 1, which the table had, twice in one
\* batch; there is one row, it has the e-mail of the last entry and the
\* created_at of the first insert.
C24_Witness ==
    /\ obs.op = "prospect"
    /\ obs.committed
    /\ obs.twice
    /\ obs.issue_url = 1
    /\ obs.email = 2
    /\ Len(leads) = 1
    /\ leads[1].issue_url = 1
    /\ leads[1].email = 2
    /\ leads[1].created_at < Day(now)

\* Whether s is the start of t.
IsPrefix(s, t) == Len(s) <= Len(t) /\ \A k \in 1..Len(s) : s[k] = t[k]

\* C25: the retries scheduled for a request have the delays base * 2^k and
\* are at most max_retries: 60, 120 for send_single_outreach, 300, 600, 1200
\* for send_automated_outreach, 30, 60, 120 for process_email_reply; every
\* retry there was has been scheduled with one of them.
C25_RetryDelays ==
    /\ IsPrefix(requests["send_single_outreach"].countdowns, <<60, 120>>)
    /\ IsPrefix(requests["send_automated_outreach"].countdowns, <<300, 600, 1200>>)
    /\ IsPrefix(requests["process_email_reply"].countdowns, <<30, 60, 120>>)
    /\ \A task \in RetryingTasks :
          requests[task].retries # Null =>
              Len(requests[task].countdowns) = requests[task].retries

\* C25 happens: every attempt of send_automated_outreach raised, the request
\* has ended after three retries; send_single_outreach is in its last retry.
C25_Witness ==
    /\ requests["send_automated_outreach"] = [retries |-> Null, countdowns |-> <<300, 600, 1200>>]
    /\ requests["send_single_outreach"] = [retries |-> 2, countdowns |-> <<60, 120>>]

\* Whether a request of the id waits in the queue or runs.
Live(p, id) ==
    \/ \E k \in 1..Len(p.queue) : p.queue[k].id = id
    \/ \E w \in Workers : p.run[w].id = id

\* C26: a retry of a prospecting task that a worker takes executes the
\* workflow; no request has more than max_retries retries; when the request
\* of a row has ended and the row is FAILED with the error of the workflow,
\* the error is that of the final attempt (3 for the scheduled task, 2 for
\* the task on demand).
C26_RetriesRunAndRecord ==
    [][/\ (obs'.op = "start" /\ obs'.message.retries > 0) =>
              \E w \in Workers : prospecting'.run[w] = obs'.message
       /\ \A k \in 1..Len(prospecting'.queue) :
              prospecting'.queue[k].retries <=
                  (IF prospecting'.queue[k].task = "run_daily_prospecting" THEN 3 ELSE 2)
       /\ \A id \in DOMAIN tasks' :
              (/\ ~Live(prospecting', id)
               /\ tasks'[id].status = FAILED
               /\ tasks'[id].error_message.kind = "workflow")
                  => tasks'[id].error_message.attempt =
                         (IF tasks'[id].input_data = "scheduled" THEN 3 ELSE 2)]_vars

\* C27: when every request has been worked off, no Task row is PENDING: the
\* row whose id the trigger endpoint returned has been updated by the worker
\* that ran the job.
C27_PendingRowUpdated ==
    (Len(prospecting.queue) = 0 /\ \A w \in Workers : prospecting.run[w] = NoMessage)
        => \A id \in DOMAIN tasks : tasks[id].status # PENDING

\* C28: cancel_task on a PENDING or RUNNING row leaves it FAILED with the
\* cancellation reason and a completion time; on a COMPLETED or FAILED row
\* it is rejected and the table is unchanged; the queue and the running
\* invocations are never touched.
C28_CancelMarksFailed ==
    [][obs'.op = "cancel" =>
          /\ prospecting' = prospecting
          /\ obs'.id \in DOMAIN tasks =>
                IF tasks[obs'.id].status \in {PENDING, RUNNING}
                THEN /\ tasks'[obs'.id].status = FAILED
                     /\ tasks'[obs'.id].error_message = CancelReason
                     /\ tasks'[obs'.id].completed_at # Null
                ELSE /\ obs'.status_code = 400
                     /\ tasks' = tasks]_vars

\* C29: log_provenance returns whatever the audit store answers; a send
\* leaves the table, the retries and the mailer's calls, and a webhook event
\* its answer and the table, as they are left with a healthy audit store.
C29_AuditNeverRaises ==
    [][/\ log_provenance(audit) = "returned"
       /\ obs'.op = "send" =>
             /\ recs' = SingleOutcome(obs'.id, obs'.res, HealthyStore)
             /\ pendingSingle' = SingleRetries(obs'.id, HealthyStore)
             /\ mails'[obs'.id] = IF MailerCalledWith(obs'.id, HealthyStore)
                                  THEN Mailed(mails[obs'.id], obs'.res)
                                  ELSE mails[obs'.id]
       /\ obs'.op = "webhook" =>
             /\ obs'.code = WebhookResponseWith(obs'.ev, Hmac(cfg.secret, obs'.ev), HealthyStore)
             /\ IF Matches(obs'.ev) # {}
                THEN \E i \in Matches(obs'.ev) : recs' = Handle(obs'.ev, i)
                ELSE recs' = recs]_vars

\* C29 happens: with an audit store that fails on every write, a send has
\* left its record SENT.
C29_Witness ==
    /\ audit = AuditStore("Exception", FALSE, FALSE)
    /\ obs.op = "send"
    /\ obs.res.success
    /\ recs[obs.id].status = SENT

\* C30: whatever the interleaving of the send_automated_outreach tasks, no
\* two OutreachRequests to one contact_email are created within 7 days of
\* each other, and the contact is sent at most one e-mail in that time.
C30_OneAutomatedPerContact ==
    \A i, j \in 1..Len(recs) :
        (i < j /\ recs[i].contact_email = recs[j].contact_email) =>
            /\ recs[j].created_at - recs[i].created_at > 7
            /\ mails[i].sent + mails[j].sent <= 1


\* C31: with late acknowledgment, when the worker running send_single_outreach
\* is lost after the mailer accepted the message and before the outcome is
\* committed, the redelivered task does not call the mailer again for the
\* record: once the mailer accepted the message of a record, it is not called
\* for the record until the record is enqueued again.
C31_RedeliveredSendsOnce ==
    [][\A i \in Ids : mails[i].sent >= 1 => mails'[i].calls <= mails[i].calls]_vars

\* C32: every OutreachRequest that enters SENDING eventually is SENT or
\* FAILED, also when the worker is lost between the commit of SENDING and the
\* commit of the outcome and the job is delivered again, for the queue drain
\* and for send_single_outreach: no record stays SENDING forever.
C32_SendingEnds ==
    \A i \in Ids :
        (Exists(i) /\ recs[i].status = SENDING)
            ~> (Exists(i) /\ recs[i].status \in {SENT, FAILED})

\* C33: under repeated drain runs and a mailer that always answers, every
\* QUEUED record that is not gated by unmet approval eventually is SENT or
\* FAILED, however many older QUEUED records are gated by unmet approval.
C33_SendableNotStarved ==
    \A i \in StarveIds :
        (Exists(i) /\ recs[i].status = QUEUED /\ ~Gated(recs[i]))
            ~> (Exists(i) /\ recs[i].status \in {SENT, FAILED})

\* C34: across the attempts of one send_automated_outreach request (the first
\* run and its retries) the mailer accepts the invite to the Lead at most
\* once: an attempt that raises after the mailer accepted the message (the
\* final commit fails, the added OutreachRequest is rolled back) is not
\* followed by a retry that sends the e-mail again.
C34_RetriesSendOnce == obs.op = "automated" => obs.accepted <= 1

\* C35: a delivered event that arrives after the reply was recorded leaves
\* the record REPLIED: the delivered handler changes the status of the
\* matched record only when it is SENT.
C35_DeliveredOnlyFromSent ==
    [][(obs'.op = "webhook" /\ Normalize(obs'.ev.etype) = "message.delivered") =>
          \A i \in 1..Len(recs) :
              recs[i].status # SENT => recs'[i].status = recs[i].status]_vars

\* C36: a Task row that is COMPLETED or FAILED keeps its status, and a row
\* cancel_task was called for while it was PENDING or RUNNING is not made
\* COMPLETED, nor FAILED with an error other than the cancellation, by the
\* worker that finishes the work in flight.
C36_TerminalStatusKept ==
    [][\A id \in DOMAIN tasks :
          /\ tasks[id].status \in {COMPLETED, FAILED} => tasks'[id].status = tasks[id].status
          /\ id \in obs.ids =>
                /\ tasks'[id].status # COMPLETED
                /\ tasks'[id].status = FAILED => tasks'[id].error_message = CancelReason]_vars

\* C37: when two successive runs of the inbox monitoring see the same
\* message and the first found an OutreachRequest for it, the second changes
\* no OutreachRequest and no Lead and reports the message as already
\* processed, whether received_at is a timestamp, missing or unparseable.
C37_PollIdempotent ==
    (/\ obs.op = "monitor"
     /\ obs.before.msg = obs.msg
     /\ obs.before.reason \in {"processed", "already_processed"})
        => (~obs.changed /\ obs.reason = "already_processed")

\* C38: when the dispatch of the send task fails inside the send endpoint
\* (the answer is 500), the record has the status it had before the call:
\* DRAFT stays DRAFT and FAILED stays FAILED.
C38_FailedDispatchRestores ==
    [][(obs'.op = "send" /\ obs'.code = 500)
          => recs'[obs'.id].status = recs[obs'.id].status]_vars

\* C39: in every reachable state the status of every OutreachRequest is a
\* member of the declared OutreachStatus enumeration: every status the
\* engine writes, SENDING and FAILED among them, is a declared member.
C39_StatusDeclared ==
    \A i \in 1..Len(recs) : recs[i].status \in OutreachStatus


=============================================================================
